---- MODULE Spec2Model ----
(***************************************************************************)
(* A model of realpic: ConfigParser (theme normalisation and dimension     *)
(* resolution), the RealPic presentation controller (setOptions, flip,     *)
(* reset, show, hide, destroy and their timers and loads) and the          *)
(* RealPicViewer shell that drives one controller; the layout pass         *)
(* (_applyLayout, _parseDimension), the debounced relayout on resize and   *)
(* the pointer-driven tilt.                                                *)
(*                                                                         *)
(* JavaScript values.  An optional value (a field that may be absent,      *)
(* undefined or null) is a set: {} when absent, {v} when present.  A path  *)
(* or URL is a sequence of tokens, "/" being the separator, so that the    *)
(* prefix tests and concatenations of the code are computed, not assumed.  *)
(* A number is an exact fraction, and a dimension string is a sequence of  *)
(* characters read by trim, endsWith and parseFloat.                       *)
(***************************************************************************)
EXTENDS Integers, Sequences, FiniteSets, TLC

VARIABLES
    \* ---- ConfigParser, driven step by step (specification SpecParse)
    rawConfig,      \* the raw theme descriptor handed to ConfigParser.parse
    phase,          \* "raw" -> "parsed" -> "loaded" -> "dims"
    \* ---- RealPic fields
    dimInput,       \* the arguments of a _parseDimension call: value and baseSize
    dimOutput,      \* what that call returned, once it has
    frameInput,     \* the arguments of an _applyFrameLayout call: the side, its natural
                    \* size in this.dimensions, and the card's pixel size
    frameOutput,    \* the styles and the scale that call set, once it has
    options,        \* this.options
    parsedConfig,   \* this.parsedConfig
    loadedImages,   \* this.loadedImages
    dimensions,     \* this.dimensions
    isFlipped,      \* this.isFlipped
    isAnimating,    \* this.isAnimating
    isInitialized,  \* this.isInitialized
    flippedClass,   \* rootElement carries 'realpic-flipped'
    hiddenClass,    \* rootElement carries 'realpic-hidden'
    rootAttached,   \* rootElement is a child of the container (until destroy)
    flipTimers,     \* pending setTimeout(..., 600) callbacks of flip()
    contentAreas,   \* this.contentAreas: area id -> {element, config, side}
    frontFrame,     \* children of this.frontFrame, in order
    backFrame,      \* children of this.backFrame, in order
    resizeObserver, \* this.resizeObserver: the observer it holds, if any
    observers,      \* the ResizeObservers observing the container
    calls,          \* the setOptions() calls that are suspended at an await
    nCalls,         \* the number of setOptions() calls made so far
    settled,        \* how the setOptions() call that settled last ended
    containerRect,  \* rootElement.getBoundingClientRect(): width and height
    layout,         \* the last _applyLayout() pass, as what it read; the styles it
                    \* set on the viewport, frames and areas are stylesOf(layout)
    transform,      \* perspectiveWrapper.style.transform: rotateX and rotateY in degrees
    lastMouse,      \* this._lastMouseX / _lastMouseY, or undefined
    rafPending,     \* this._rafPending
    rafQueued,      \* how many callbacks given to requestAnimationFrame are still to run
    isTouching,     \* this._isTouching
    resizeTimers,   \* how many callbacks of setTimeout(..., 100) are still to run
    resizeTimeout,  \* this.resizeTimeout names one of them
    relayouts,      \* _applyLayout() runs made by those callbacks since the last
                    \* notification of a ResizeObserver
    \* ---- RealPicViewer
    viewer,         \* its fields: realpic (non-null), isOpen, isLoading, the modal's
                    \* 'active' and 'loading' classes, and whether options.onOpen is set
    shows,          \* the show() calls that are suspended at an await
    nShows,         \* the number of show() calls that got past the guards
    hideTimers,     \* pending setTimeout(() => realpic?.hide(), 300) of close()
    closeTimers,    \* pending setTimeout(() => this.options.onClose(), 300) of close()
    \* ---- history, written by the actions and read only by the properties
    showDropped,    \* a show() returned at the isLoading guard during this load
    tableCall,      \* the call whose _loadImages created the current loadedImages
    flipBase,       \* isFlipped before the flip() that opened the current window
    flipClean,      \* no reset(), hide() or setOptions() since that flip()
    flipDropped,    \* a flip() was dropped in the current window
    justHid         \* "hid" / "hidFlipped" right after hide(), "restored" after the
                    \* show() that followed a hide() of the back face, else "no"

parseVars == <<rawConfig, phase, dimInput, dimOutput, frameInput, frameOutput>>
dataVars == <<options, parsedConfig, loadedImages, dimensions>>
flipVars == <<isFlipped, isAnimating, flippedClass, flipTimers>>
domVars == <<contentAreas, frontFrame, backFrame>>
observerVars == <<resizeObserver, observers>>
callVars == <<calls, nCalls, settled, tableCall>>
flipHistory == <<flipBase, flipClean, flipDropped>>
layoutVars == <<containerRect, layout>>
tiltVars == <<transform, lastMouse, rafPending, rafQueued, isTouching>>
resizeVars == <<resizeTimers, resizeTimeout, relayouts>>
ctlVars == <<isInitialized, hiddenClass, rootAttached, flipVars, domVars, observerVars,
             callVars, flipHistory, justHid, layoutVars, tiltVars, resizeVars>>
viewerVars == <<viewer, shows, nShows, hideTimers, closeTimers, showDropped>>
vars == <<parseVars, dataVars, ctlVars, viewerVars>>

----------------------------------------------------------------------------
(* Optional values and the operators ??, || of the code.                   *)

None == {}
Some(v) == {v}
The(o) == CHOOSE v \in o : TRUE

\* a ?? b : b when a is null or undefined
Nullish(a, b) == IF a = None THEN b ELSE a

\* a || b for an optional string: the empty string is falsy too
Falsy(o) == o = None \/ o = Some("")
OrElse(a, b) == IF Falsy(a) THEN b ELSE a

\* a || b for an optional path: the empty path is falsy too
FalsyPath(o) == o = None \/ o = Some(<<>>)
OrElsePath(a, b) == IF FalsyPath(a) THEN b ELSE a

\* !n for an optional number: absent and 0 are falsy
FalsyNum(o) == o = None \/ o = Some(0)

----------------------------------------------------------------------------
(* Numbers. A JS number is modelled as an exact fraction n/d in lowest     *)
(* terms with d > 0; Infinity is 1/0, -Infinity is -1/0 and NaN is 0/0.    *)
(* The rounding of doubles and the sign of zero are not modelled.          *)

NaN == [n |-> 0, d |-> 0]
Infinity == [n |-> 1, d |-> 0]

Abs(i) == IF i < 0 THEN -i ELSE i
Sign(i) == IF i < 0 THEN -1 ELSE IF i > 0 THEN 1 ELSE 0

RECURSIVE Gcd(_, _)
Gcd(a, b) == IF b = 0 THEN a ELSE Gcd(b, a % b)

Rat(n, d) ==
    IF d = 0 THEN [n |-> Sign(n), d |-> 0]
    ELSE LET g == Gcd(Abs(n), Abs(d))
         IN  [n |-> Sign(d) * (n \div g), d |-> Abs(d) \div g]

Integer(i) == Rat(i, 1)
IsNaN(a) == a = NaN
Mul(a, b) == Rat(a.n * b.n, a.d * b.d)
\* 1/b
Inv(b) == IF b.d = 0 THEN (IF IsNaN(b) THEN NaN ELSE Integer(0)) ELSE Rat(b.d, b.n)
Div(a, b) == Mul(a, Inv(b))
Sub(a, b) ==
    IF a.d = 0 /\ b.d = 0
    THEN (IF IsNaN(a) \/ IsNaN(b) \/ a = b THEN NaN ELSE a)
    ELSE Rat(a.n * b.d - b.n * a.d, a.d * b.d)
\* a <= b; false as soon as one side is NaN
Leq(a, b) ==
    /\ ~IsNaN(a) /\ ~IsNaN(b)
    /\ IF a.d = 0 /\ b.d = 0 THEN a.n <= b.n ELSE a.n * b.d <= b.n * a.d
\* Math.min(a, b)
Min(a, b) == IF IsNaN(a) \/ IsNaN(b) THEN NaN ELSE IF Leq(a, b) THEN a ELSE b

----------------------------------------------------------------------------
(* Strings are sequences of one-character strings, so that trim, endsWith  *)
(* and parseFloat are computed on the characters.                          *)

Digits == <<"0", "1", "2", "3", "4", "5", "6", "7", "8", "9">>
IsDigit(c) == \E i \in 1..10 : Digits[i] = c
DigitValue(c) == (CHOOSE i \in 1..10 : Digits[i] = c) - 1

RECURSIVE Pow10(_)
Pow10(k) == IF k = 0 THEN 1 ELSE 10 * Pow10(k - 1)

\* String(i) for an integer i >= 0
RECURSIVE natString(_)
natString(i) == IF i < 10 THEN <<Digits[i + 1]>> ELSE natString(i \div 10) \o <<Digits[(i % 10) + 1]>>

\* String(x) for a number with at most one decimal: "-0.5", "1", "12.5"
toString(x) ==
    LET tenths == (Abs(x.n) * 10) \div x.d
        whole == natString(tenths \div 10)
        frac == IF tenths % 10 = 0 THEN <<>> ELSE <<".", Digits[(tenths % 10) + 1]>>
    IN  (IF x.n < 0 THEN <<"-">> ELSE <<>>) \o whole \o frac

\* String.prototype.trim, for the space character
RECURSIVE trimStart(_)
trimStart(s) == IF Len(s) > 0 /\ s[1] = " " THEN trimStart(Tail(s)) ELSE s
RECURSIVE trimEnd(_)
trimEnd(s) == IF Len(s) > 0 /\ s[Len(s)] = " " THEN trimEnd(SubSeq(s, 1, Len(s) - 1)) ELSE s
trim(s) == trimEnd(trimStart(s))

endsWith(s, suffix) ==
    /\ Len(s) >= Len(suffix)
    /\ SubSeq(s, Len(s) - Len(suffix) + 1, Len(s)) = suffix

\* The number of leading digits of s
RECURSIVE digitRun(_)
digitRun(s) == IF Len(s) > 0 /\ IsDigit(s[1]) THEN 1 + digitRun(Tail(s)) ELSE 0

\* The value of a string of digits (0 for the empty string)
RECURSIVE digitsValue(_)
digitsValue(s) ==
    IF Len(s) = 0 THEN 0 ELSE 10 * digitsValue(SubSeq(s, 1, Len(s) - 1)) + DigitValue(s[Len(s)])

\* parseFloat: leading white space, an optional sign, digits with an optional
\* fraction; whatever follows is ignored; NaN when no digit was read.
\* (Exponents and "Infinity" do not occur in the strings of the model.)
parseFloat(str) ==
    LET t == trimStart(str)
        signed == Len(t) > 0 /\ t[1] \in {"-", "+"}
        u == IF signed THEN Tail(t) ELSE t
        intLen == digitRun(u)
        rest == SubSeq(u, intLen + 1, Len(u))
        fracLen == IF Len(rest) > 0 /\ rest[1] = "." THEN digitRun(Tail(rest)) ELSE 0
        whole == digitsValue(SubSeq(u, 1, intLen))
        frac == digitsValue(SubSeq(rest, 2, fracLen + 1))
        magnitude == Rat(whole * Pow10(fracLen) + frac, Pow10(fracLen))
    IN  IF intLen + fracLen = 0 THEN NaN
        ELSE IF signed /\ t[1] = "-" THEN Mul(Integer(-1), magnitude) ELSE magnitude

----------------------------------------------------------------------------
(* Dimension values: a bare number n/d, or a string.                       *)

Num(n, d) == [kind |-> "num", n |-> n, d |-> d]
Pct(n, d) == [kind |-> "pct", n |-> n, d |-> d]
Px(n, d) == [kind |-> "px", n |-> n, d |-> d]
Str(chars) == [kind |-> "str", chars |-> chars]

\* typeof value === 'string'
isString(value) == value.kind # "num"

\* The string a dimension value is in the descriptor: "10%", "20px", or the
\* characters themselves.
textOf(value) ==
    CASE value.kind = "pct" -> toString(Rat(value.n, value.d)) \o <<"%">>
      [] value.kind = "px" -> toString(Rat(value.n, value.d)) \o <<"p", "x">>
      [] OTHER -> value.chars

\* A slip: the `<= 1` test of the relative form applied to "px" strings too.
parseDimensionPxRelative(value, baseSize) ==
    LET rel(num) == IF Leq(num, Integer(1)) THEN Mul(num, Integer(baseSize)) ELSE num
    IN  IF isString(value)
        THEN LET v == trim(textOf(value))
             IN  IF endsWith(v, <<"%">>) THEN Mul(Div(parseFloat(v), Integer(100)), Integer(baseSize))
                 ELSE rel(parseFloat(v))
        ELSE rel(Rat(value.n, value.d))

\* A slip: `< 1` for `<= 1`.
parseDimensionStrict(value, baseSize) ==
    LET rel(num) == IF Leq(num, Integer(1)) /\ num # Integer(1) THEN Mul(num, Integer(baseSize)) ELSE num
    IN  IF isString(value)
        THEN LET v == trim(textOf(value))
             IN  IF endsWith(v, <<"%">>) THEN Mul(Div(parseFloat(v), Integer(100)), Integer(baseSize))
                 ELSE IF endsWith(v, <<"p", "x">>) THEN parseFloat(v)
                 ELSE rel(parseFloat(v))
        ELSE rel(Rat(value.n, value.d))

parseDimension(value, baseSize) ==
    LET rel(num) == IF Leq(num, Integer(1)) THEN Mul(num, Integer(baseSize)) ELSE num
    IN  IF isString(value)
        THEN LET v == trim(textOf(value))
             IN  IF endsWith(v, <<"%">>) THEN Mul(Div(parseFloat(v), Integer(100)), Integer(baseSize))
                 ELSE IF endsWith(v, <<"p", "x">>) THEN parseFloat(v)
                 ELSE rel(parseFloat(v))
        ELSE rel(Rat(value.n, value.d))

----------------------------------------------------------------------------
(* ConfigParser                                                            *)

DEFAULT_BACKGROUND == "#eeeeee"

parseSideConfig(sideConfig) ==
    LET result == [ image |-> OrElsePath(sideConfig.image, None),
                    background |-> The(OrElse(sideConfig.background, Some(DEFAULT_BACKGROUND))),
                    width |-> Nullish(sideConfig.width, None),
                    height |-> Nullish(sideConfig.height, None) ]
    IN  IF /\ FalsyPath(sideConfig.image)
           /\ FalsyNum(sideConfig.width)
           /\ FalsyNum(sideConfig.height)
           /\ Falsy(sideConfig.background)
        THEN [result EXCEPT !.background = DEFAULT_BACKGROUND]
        ELSE result

\* The two areas the code returns for a missing or empty list: only area and
\* side are set, every other field is absent.
defaultContentAreas ==
    << [ area |-> 0, side |-> "front", x |-> None, y |-> None, width |-> None,
         height |-> None, position |-> None, fit |-> None, style |-> {} ],
       [ area |-> 1, side |-> "back", x |-> None, y |-> None, width |-> None,
         height |-> None, position |-> None, fit |-> None, style |-> {} ] >>

\* One entry of areas.map((area, index) => ...); index is zero-based.
parseContentArea(area, index) ==
    [ area |-> The(Nullish(area.area, Some(index))),
      side |-> The(OrElse(area.side, Some(IF index = 0 THEN "front" ELSE "back"))),
      x |-> Nullish(area.x, Some(IF index = 0 THEN Num(0, 1) ELSE Num(1, 10))),
      y |-> Nullish(area.y, Some(IF index = 0 THEN Num(0, 1) ELSE Num(1, 10))),
      width |-> Nullish(area.width, Some(IF index = 0 THEN Num(1, 1) ELSE Num(8, 10))),
      height |-> Nullish(area.height, Some(IF index = 0 THEN Num(1, 1) ELSE Num(8, 10))),
      position |-> OrElse(area.position, Some("center")),
      fit |-> OrElse(area.fit, Some("contain")),
      style |-> area.style ]

parseContentAreas(areas) ==
    IF Len(areas) = 0
    THEN defaultContentAreas
    ELSE [i \in 1..Len(areas) |-> parseContentArea(areas[i], i - 1)]

\* A slip: a back size of 0 is taken for unset (!config.back.width).
resolveDependenciesFalsy(config) ==
    LET w == IF FalsyNum(config.back.width) THEN config.front.width ELSE config.back.width
        h == IF FalsyNum(config.back.height) THEN config.front.height ELSE config.back.height
    IN  [config EXCEPT !.back.width = w, !.back.height = h]

resolveDependencies(config) ==
    LET w == IF config.back.width = None THEN config.front.width ELSE config.back.width
        h == IF config.back.height = None THEN config.front.height ELSE config.back.height
    IN  [config EXCEPT !.back.width = w, !.back.height = h]

\* path.startsWith('http') || path.startsWith('/'); './' is stripped.
resolvePath(path, base) ==
    IF Len(path) > 0 /\ (path[1] = "http:" \/ path[1] = "/")
    THEN path
    ELSE IF Len(path) > 1 /\ path[1] = "." /\ path[2] = "/"
         THEN base \o SubSeq(path, 3, Len(path))
         ELSE base \o path

\* themeBase.endsWith('/') ? themeBase : themeBase + '/'
withSlash(themeBase) ==
    IF themeBase[Len(themeBase)] = "/" THEN themeBase ELSE themeBase \o <<"/">>

resolveImagePaths(config, themeBase) ==
    IF FalsyPath(themeBase)
    THEN config
    ELSE LET base == withSlash(The(themeBase))
             res(img) == IF img = None THEN img ELSE Some(resolvePath(The(img), base))
         IN  [config EXCEPT !.front.image = res(@), !.back.image = res(@)]

\* _validate only warns: the warnings it logs.
validate(config) ==
    LET ca == config.contentArea
    IN  (IF Len(ca) >= 1 /\ ca[1].side = "front" THEN {} ELSE {"contentArea[0] should have side=front"})
        \cup
        (IF Len(ca) >= 2 /\ ca[2].side = "back" THEN {} ELSE {"contentArea[1] should have side=back"})

EmptySide == [image |-> None, background |-> None, width |-> None, height |-> None]

parse(raw, themeBase) ==
    LET config == [ front |-> parseSideConfig(The(Nullish(raw.front, Some(EmptySide)))),
                    back |-> parseSideConfig(The(Nullish(raw.back, Some(EmptySide)))),
                    contentArea |-> parseContentAreas(The(Nullish(raw.contentArea, Some(<<>>)))) ]
    IN  resolveImagePaths(resolveDependencies(config), themeBase)

\* `content_${index}`
contentKey(index) == "content_" \o ToString(index)

DefaultWidth == 800
DefaultHeight == 600

\* A slip: the frame and content fallbacks run only when both axes are unset
\* (&& for ||).
getDimensionsBothUnset(config, loaded) ==
    LET has(k) == k \in DOMAIN loaded
        w0 == config.front.width
        h0 == config.front.height
        useFrame == (w0 = None /\ h0 = None) /\ has("frontFrame")
        w1 == IF useFrame THEN Nullish(w0, Some(loaded["frontFrame"].width)) ELSE w0
        h1 == IF useFrame THEN Nullish(h0, Some(loaded["frontFrame"].height)) ELSE h0
        useContent == (w1 = None /\ h1 = None) /\ has("content_0")
        w2 == IF useContent THEN Nullish(w1, Some(loaded["content_0"].width)) ELSE w1
        h2 == IF useContent THEN Nullish(h1, Some(loaded["content_0"].height)) ELSE h1
        frontWidth == The(Nullish(w2, Some(DefaultWidth)))
        frontHeight == The(Nullish(h2, Some(DefaultHeight)))
        backWidth == The(Nullish(config.back.width, Some(frontWidth)))
        backHeight == The(Nullish(config.back.height, Some(frontHeight)))
    IN  [ front |-> [width |-> frontWidth, height |-> frontHeight],
          back |-> [width |-> backWidth, height |-> backHeight],
          realpic |-> [width |-> frontWidth, height |-> frontHeight] ]

\* getDimensions with 800 as the default of both axes.
getDimensionsSquareDefault(config, loaded) ==
    LET has(k) == k \in DOMAIN loaded
        w0 == config.front.width
        h0 == config.front.height
        useFrame == (w0 = None \/ h0 = None) /\ has("frontFrame")
        w1 == IF useFrame THEN Nullish(w0, Some(loaded["frontFrame"].width)) ELSE w0
        h1 == IF useFrame THEN Nullish(h0, Some(loaded["frontFrame"].height)) ELSE h0
        useContent == (w1 = None \/ h1 = None) /\ has("content_0")
        w2 == IF useContent THEN Nullish(w1, Some(loaded["content_0"].width)) ELSE w1
        h2 == IF useContent THEN Nullish(h1, Some(loaded["content_0"].height)) ELSE h1
        frontWidth == The(Nullish(w2, Some(DefaultWidth)))
        frontHeight == The(Nullish(h2, Some(DefaultWidth)))
        backWidth == The(Nullish(config.back.width, Some(frontWidth)))
        backHeight == The(Nullish(config.back.height, Some(frontHeight)))
    IN  [ front |-> [width |-> frontWidth, height |-> frontHeight],
          back |-> [width |-> backWidth, height |-> backHeight],
          realpic |-> [width |-> frontWidth, height |-> frontHeight] ]

\* getDimensions with || in place of ?? on the back axes.
getDimensionsBackFalsy(config, loaded) ==
    LET has(k) == k \in DOMAIN loaded
        w0 == config.front.width
        h0 == config.front.height
        useFrame == (w0 = None \/ h0 = None) /\ has("frontFrame")
        w1 == IF useFrame THEN Nullish(w0, Some(loaded["frontFrame"].width)) ELSE w0
        h1 == IF useFrame THEN Nullish(h0, Some(loaded["frontFrame"].height)) ELSE h0
        useContent == (w1 = None \/ h1 = None) /\ has("content_0")
        w2 == IF useContent THEN Nullish(w1, Some(loaded["content_0"].width)) ELSE w1
        h2 == IF useContent THEN Nullish(h1, Some(loaded["content_0"].height)) ELSE h1
        frontWidth == The(Nullish(w2, Some(DefaultWidth)))
        frontHeight == The(Nullish(h2, Some(DefaultHeight)))
        backWidth == IF FalsyNum(config.back.width) THEN frontWidth ELSE The(config.back.width)
        backHeight == IF FalsyNum(config.back.height) THEN frontHeight ELSE The(config.back.height)
    IN  [ front |-> [width |-> frontWidth, height |-> frontHeight],
          back |-> [width |-> backWidth, height |-> backHeight],
          realpic |-> [width |-> frontWidth, height |-> frontHeight] ]

getDimensions(config, loaded) ==
    LET has(k) == k \in DOMAIN loaded
        w0 == config.front.width
        h0 == config.front.height
        useFrame == (w0 = None \/ h0 = None) /\ has("frontFrame")
        w1 == IF useFrame THEN Nullish(w0, Some(loaded["frontFrame"].width)) ELSE w0
        h1 == IF useFrame THEN Nullish(h0, Some(loaded["frontFrame"].height)) ELSE h0
        useContent == (w1 = None \/ h1 = None) /\ has("content_0")
        w2 == IF useContent THEN Nullish(w1, Some(loaded["content_0"].width)) ELSE w1
        h2 == IF useContent THEN Nullish(h1, Some(loaded["content_0"].height)) ELSE h1
        frontWidth == The(Nullish(w2, Some(DefaultWidth)))
        frontHeight == The(Nullish(h2, Some(DefaultHeight)))
        backWidth == The(Nullish(config.back.width, Some(frontWidth)))
        backHeight == The(Nullish(config.back.height, Some(frontHeight)))
    IN  [ front |-> [width |-> frontWidth, height |-> frontHeight],
          back |-> [width |-> backWidth, height |-> backHeight],
          realpic |-> [width |-> frontWidth, height |-> frontHeight] ]

----------------------------------------------------------------------------
(* Image loading: which loads _loadImages issues, and what a load stores.  *)

\* The natural size of the image behind a URL (img.naturalWidth/Height):
\* decided by the file the URL ends in.
naturalSize(url) ==
    LET file == IF Len(url) = 0 THEN "" ELSE url[Len(url)]
    IN  CASE file = "frame-A.png" -> [width |-> 1000, height |-> 700]
          [] file = "frame-B.png" -> [width |-> 500, height |-> 900]
          [] file = "photo.jpg" -> [width |-> 640, height |-> 480]
          [] OTHER -> [width |-> 320, height |-> 200]

\* The tasks of _loadImages: the key and URL of every load it issues.
loadTasks(config, opts) ==
    LET contents == The(Nullish(opts.contents, Some(<<>>)))
    IN  (IF config.front.image # None THEN {[key |-> "frontFrame", url |-> The(config.front.image)]} ELSE {})
        \cup
        (IF config.back.image # None THEN {[key |-> "backFrame", url |-> The(config.back.image)]} ELSE {})
        \cup
        { [key |-> contentKey(i - 1), url |-> The(contents[i].src)] :
            i \in {j \in 1..Len(contents) :
                     contents[j].type = "image" /\ ~FalsyPath(contents[j].src)} }

\* What img.onload stores under the key; call is the setOptions call that
\* issued the load (0 outside the controller).
loadedEntry(task, call) ==
    [ width |-> naturalSize(task.url).width, height |-> naturalSize(task.url).height,
      url |-> task.url, call |-> call ]

----------------------------------------------------------------------------
(* Inputs of the ConfigParser specification.                               *)

MaxSide == 2

SideSizes == {None} \cup {Some(n) : n \in 0..MaxSide}

FrameA == <<".", "/", "frame-A.png">>
FrameB == <<"frame-B.png">>
Photo == <<"/", "images", "/", "photo.jpg">>
Photo2 == <<"/", "images", "/", "other.jpg">>

RawSides ==
    [image : {None, Some(FrameA)}, background : {None}, width : SideSizes, height : SideSizes]
    \cup
    [image : {Some(<<>>), Some(FrameB), Some(Photo)}, background : {Some(""), Some("#f5f5f5")},
     width : {None}, height : {None}]

EmptyArea ==
    [ area |-> None, side |-> None, x |-> None, y |-> None, width |-> None, height |-> None,
      position |-> None, fit |-> None, style |-> {} ]

RawAreas ==
    { EmptyArea,
      [EmptyArea EXCEPT !.area = Some(1)],
      [EmptyArea EXCEPT !.area = Some(0), !.side = Some("front"), !.x = Some(Num(46, 1)),
                        !.y = Some(Num(46, 1)), !.width = Some(Num(990, 1)),
                        !.height = Some(Num(640, 1)), !.fit = Some("cover")],
      [EmptyArea EXCEPT !.side = Some("back"), !.x = Some(Pct(10, 1)), !.y = Some(Pct(20, 1)),
                        !.width = Some(Px(480, 1)), !.position = Some("left"),
                        !.style = {"color", "fontSize"}] }

RawAreaLists ==
    {None, Some(<<>>)} \cup {Some(<<a>>) : a \in RawAreas}
    \cup {Some(<<a, b>>) : a \in RawAreas, b \in RawAreas}

ImageItem(area, src) == [area |-> area, type |-> "image", src |-> src, content |-> None]
TextItem(area) == [area |-> area, type |-> "text", src |-> None, content |-> Some("**md**")]

ContentLists ==
    { None,
      Some(<<ImageItem(Some(0), Some(Photo)), TextItem(Some(1))>>),
      Some(<<TextItem(Some(1)), ImageItem(Some(0), Some(Photo))>>),
      Some(<<ImageItem(None, None), ImageItem(None, Some(Photo2))>>) }

ThemeA == <<"themes", "/", "postcard", "/">>
ThemeB == <<"themes", "/", "zmd">>

\* Descriptors: every pair of sides with no area list, every area list
\* with a few sides.
RawConfigs ==
    [front : {None} \cup {Some(s) : s \in RawSides},
     back : {None} \cup {Some(s) : s \in RawSides},
     contentArea : {None}]
    \cup
    [front : {None, Some([EmptySide EXCEPT !.width = Some(MaxSide)])},
     back : {None, Some([EmptySide EXCEPT !.image = Some(FrameB)])},
     contentArea : RawAreaLists]

ParseOptions ==
    [themePath : {Some(ThemeA)}, contents : ContentLists]
    \cup
    [themePath : {Some(ThemeB), None}, contents : {None}]

----------------------------------------------------------------------------
(* The RealPic controller: the state the constructor leaves.               *)

NoSettled ==
    [ id |-> 0, outcome |-> "none", kind |-> "none", overlapped |-> FALSE, created |-> FALSE,
      repeat |-> FALSE ]

\* No _parseDimension call under way.
InitNoDimension ==
    /\ dimInput = [value |-> Num(0, 1), base |-> 1]
    /\ dimOutput = None
    /\ frameInput = [side |-> "front", natural |-> [width |-> 1, height |-> 1],
                     card |-> [width |-> 1, height |-> 1]]
    /\ frameOutput = None

\* 'rotateX(0) rotateY(0) translateZ(0)', and the element without a transform
Neutral == [rotateX |-> Integer(0), rotateY |-> Integer(0)]

\* The size of the root element in the specifications that do not vary it.
Container == [width |-> 400, height |-> 300]

InitController ==
    /\ isFlipped = FALSE
    /\ isAnimating = FALSE
    /\ isInitialized = FALSE
    /\ flippedClass = FALSE
    /\ hiddenClass = TRUE
    /\ rootAttached = TRUE
    /\ flipTimers = 0
    /\ contentAreas = << >>
    /\ frontFrame = << >>
    /\ backFrame = << >>
    /\ resizeObserver = None
    /\ observers = {}
    /\ calls = << >>
    /\ nCalls = 0
    /\ settled = NoSettled
    /\ tableCall = 0
    /\ flipBase = FALSE
    /\ flipClean = FALSE
    /\ flipDropped = FALSE
    /\ justHid = "no"
    /\ layout = None
    /\ transform = Neutral
    /\ lastMouse = None
    /\ rafPending = FALSE
    /\ rafQueued = 0
    /\ resizeTimers = 0
    /\ resizeTimeout = FALSE
    /\ relayouts = 0
    /\ isTouching = FALSE

----------------------------------------------------------------------------
(* The DOM the controller builds: content-area elements and their mount.   *)

\* The element _createContentAreas makes for entry i of config.contentArea;
\* el names it by the call that made it.
areaElement(call, cfg, i) ==
    [ el |-> <<call, i>>, area |-> cfg.contentArea[i].area,
      side |-> cfg.contentArea[i].side, content |-> None ]

createdElements(call, cfg) ==
    [i \in 1..Len(cfg.contentArea) |-> areaElement(call, cfg, i)]

\* side === 'front' ? this.frontFrame : this.backFrame
frameChildren(els, front) == SelectSeq(els, LAMBDA e : (e.side = "front") = front)

\* A Map in which the first entry with an id stays.
createdAreasFirstWins(call, cfg) ==
    LET ca == cfg.contentArea
        first(a) == CHOOSE i \in 1..Len(ca) :
                       ca[i].area = a /\ \A j \in 1..Len(ca) : ca[j].area = a => i <= j
    IN  [a \in {ca[i].area : i \in 1..Len(ca)} |->
            [el |-> <<call, first(a)>>, config |-> ca[first(a)], side |-> ca[first(a)].side]]

\* this.contentAreas.set(areaConfig.area, ...): a later entry with the same
\* id replaces the earlier one.
createdAreas(call, cfg) ==
    LET ca == cfg.contentArea
        last(a) == CHOOSE i \in 1..Len(ca) :
                      ca[i].area = a /\ \A j \in 1..Len(ca) : ca[j].area = a => j <= i
    IN  [a \in {ca[i].area : i \in 1..Len(ca)} |->
            [el |-> <<call, last(a)>>, config |-> ca[last(a)], side |-> ca[last(a)].side]]

----------------------------------------------------------------------------
(* Layout: _applyLayout, _applyFrameLayout, _applyAreaLayout.              *)

\* key.replace(/([A-Z])/g, '-$1').toLowerCase(), on the style keys of the
\* themes of the model; a key without capitals is unchanged.
cssKey(key) == IF key = "fontSize" THEN "font-size" ELSE key

\* A slip: the face covers the card (the larger ratio) instead of fitting.
applyFrameLayoutCover(config, dims, loaded, side, viewportW, viewportH) ==
    LET sideDimensions == dims[side]
        ratioW == Div(viewportW, Integer(sideDimensions.width))
        ratioH == Div(viewportH, Integer(sideDimensions.height))
        sideScale == IF Leq(ratioW, ratioH) THEN ratioH ELSE ratioW
        frameW == Mul(Integer(sideDimensions.width), sideScale)
        frameH == Mul(Integer(sideDimensions.height), sideScale)
        offsetX == Div(Sub(viewportW, frameW), Integer(2))
        offsetY == Div(Sub(viewportH, frameH), Integer(2))
        key == IF side = "front" THEN "frontFrame" ELSE "backFrame"
        withImage == ~FalsyPath(config[side].image) /\ key \in DOMAIN loaded
    IN  [ width |-> frameW, height |-> frameH, left |-> offsetX, top |-> offsetY,
          backgroundImage |-> IF withImage THEN config[side].image ELSE None,
          backgroundColor |-> IF withImage THEN "transparent" ELSE config[side].background,
          scale |-> sideScale ]

\* _applyFrameLayout(side, frameEl, viewportW, viewportH): the styles it sets
\* on the frame and the scale it keeps in this._<side>Scale.
applyFrameLayout(config, dims, loaded, side, viewportW, viewportH) ==
    LET sideDimensions == dims[side]
        sideScale == Min(Div(viewportW, Integer(sideDimensions.width)),
                         Div(viewportH, Integer(sideDimensions.height)))
        frameW == Mul(Integer(sideDimensions.width), sideScale)
        frameH == Mul(Integer(sideDimensions.height), sideScale)
        offsetX == Div(Sub(viewportW, frameW), Integer(2))
        offsetY == Div(Sub(viewportH, frameH), Integer(2))
        key == IF side = "front" THEN "frontFrame" ELSE "backFrame"
        withImage == ~FalsyPath(config[side].image) /\ key \in DOMAIN loaded
    IN  [ width |-> frameW, height |-> frameH, left |-> offsetX, top |-> offsetY,
          backgroundImage |-> IF withImage THEN config[side].image ELSE None,
          backgroundColor |-> IF withImage THEN "transparent" ELSE config[side].background,
          scale |-> sideScale ]

\* this._<side>Scale || 1
scaleOrOne(scale) == IF IsNaN(scale) \/ scale = Integer(0) THEN Integer(1) ELSE scale

\* _parseDimension(config.<field>, base) * sideScale; an absent field is
\* undefined, which _parseDimension returns as it is, and undefined * scale
\* is NaN.
areaPixels(value, base, sideScale) ==
    IF value = None THEN NaN ELSE Mul(parseDimension(The(value), base), sideScale)

\* A slip: every area is scaled and measured by the front face.
applyAreaLayoutFront(areaInfo, dims, frames) ==
    LET config == areaInfo.config
        sideScale == scaleOrOne(frames["front"].scale)
        sideDimensions == dims["front"]
    IN  [ el |-> areaInfo.el,
          left |-> areaPixels(config.x, sideDimensions.width, sideScale),
          top |-> areaPixels(config.y, sideDimensions.height, sideScale),
          width |-> areaPixels(config.width, sideDimensions.width, sideScale),
          height |-> areaPixels(config.height, sideDimensions.height, sideScale),
          style |-> {cssKey(k) : k \in config.style} ]

\* _applyAreaLayout(areaInfo): the styles it sets on the area's element.
applyAreaLayout(areaInfo, dims, frames) ==
    LET config == areaInfo.config
        sideScale == scaleOrOne(frames[areaInfo.side].scale)
        sideDimensions == dims[areaInfo.side]
    IN  [ el |-> areaInfo.el,
          left |-> areaPixels(config.x, sideDimensions.width, sideScale),
          top |-> areaPixels(config.y, sideDimensions.height, sideScale),
          width |-> areaPixels(config.width, sideDimensions.width, sideScale),
          height |-> areaPixels(config.height, sideDimensions.height, sideScale),
          style |-> {cssKey(k) : k \in config.style} ]

\* A slip: the card is stretched to the container on both axes.
applyLayoutStretch(config, dims, loaded, areas, rect) ==
    LET scaledW == Integer(rect.width)
        scaledH == Integer(rect.height)
        frames == [side \in {"front", "back"} |->
                      applyFrameLayout(config, dims, loaded, side, scaledW, scaledH)]
    IN  [ card |-> [width |-> scaledW, height |-> scaledH],
          front |-> frames["front"],
          back |-> frames["back"],
          areas |-> [a \in DOMAIN areas |-> applyAreaLayout(areas[a], dims, frames)] ]

\* _applyLayout(): rect is rootElement.getBoundingClientRect().
applyLayout(config, dims, loaded, areas, rect) ==
    LET realpicSize == dims.realpic
        scale == Min(Div(Integer(rect.width), Integer(realpicSize.width)),
                     Div(Integer(rect.height), Integer(realpicSize.height)))
        scaledW == Mul(Integer(realpicSize.width), scale)
        scaledH == Mul(Integer(realpicSize.height), scale)
        frames == [side \in {"front", "back"} |->
                      applyFrameLayout(config, dims, loaded, side, scaledW, scaledH)]
    IN  [ card |-> [width |-> scaledW, height |-> scaledH],
          front |-> frames["front"],
          back |-> frames["back"],
          areas |-> [a \in DOMAIN areas |-> applyAreaLayout(areas[a], dims, frames)] ]

\* What one _applyLayout() pass reads: the two sides of this.parsedConfig,
\* this.dimensions, which frame images this.loadedImages holds,
\* this.contentAreas and the root element's rect.
layoutPass(config, dims, loaded, areas, rect) ==
    [ front |-> config.front, back |-> config.back, dims |-> dims,
      loaded |-> DOMAIN loaded \cap {"frontFrame", "backFrame"}, areas |-> areas, rect |-> rect ]

\* The styles that pass set on the viewport, the frames and the areas.
stylesOf(pass) ==
    applyLayout([front |-> pass.front, back |-> pass.back], pass.dims,
                [k \in pass.loaded |-> TRUE], pass.areas, pass.rect)

----------------------------------------------------------------------------
contentsOf(opts) == The(Nullish(opts.contents, Some(<<>>)))

\* contentData.area !== undefined ? contentData.area : index
targetArea(item, index) == IF item.area = None THEN index ELSE The(item.area)

\* The keys of alignMap in _mountTextContent.
ValidPositions == {"top", "bottom", "left", "right", "center"}

\* A slip: one item without an area makes the whole list be skipped.
mountPlanAllOrNothing(opts, areas) ==
    LET contents == contentsOf(opts)
        all == \A j \in 1..Len(contents) : targetArea(contents[j], j - 1) \in DOMAIN areas
        found == IF all THEN 1..Len(contents) ELSE {}
        pos(j) == areas[targetArea(contents[j], j - 1)].config.position
        texts == {j \in found : contents[j].type = "text"}
        thrown == {j \in texts : ~Falsy(pos(j)) /\ The(pos(j)) \notin ValidPositions}
    IN  [ images |-> {j \in found : contents[j].type = "image"},
          texts |-> texts \ thrown,
          thrown |-> thrown ]

\* _mountContents up to its awaits: the image items mounted at once, the text
\* items suspended at parseLightMD, and the text items whose
\* alignMap[position] is undefined, so that destructuring it throws.
mountPlan(opts, areas) ==
    LET contents == contentsOf(opts)
        found == {j \in 1..Len(contents) : targetArea(contents[j], j - 1) \in DOMAIN areas}
        pos(j) == areas[targetArea(contents[j], j - 1)].config.position
        texts == {j \in found : contents[j].type = "text"}
        thrown == {j \in texts : ~Falsy(pos(j)) /\ The(pos(j)) \notin ValidPositions}
    IN  [ images |-> {j \in found : contents[j].type = "image"},
          texts |-> texts \ thrown,
          thrown |-> thrown ]

\* areaEl.innerHTML = ...: the content of element el, wherever it sits.
setContent(children, el, content) ==
    [k \in 1..Len(children) |->
        IF children[k].el = el THEN [children[k] EXCEPT !.content = content] ELSE children[k]]

\* _mountImageContent for every image item, in list order.
mountImages(children, opts, areas, call) ==
    LET contents == contentsOf(opts)
        images == mountPlan(opts, areas).images
        hits(el) == {j \in images : areas[targetArea(contents[j], j - 1)].el = el}
        lastHit(el) == CHOOSE j \in hits(el) : \A k \in hits(el) : k <= j
    IN  [k \in 1..Len(children) |->
            IF hits(children[k].el) = {} THEN children[k]
            ELSE [children[k] EXCEPT !.content =
                     Some([type |-> "image", item |-> lastHit(children[k].el) - 1, call |-> call])]]

\* The text mounts left suspended at `await parseLightMD(...)`.
textMounts(opts, areas) ==
    LET contents == contentsOf(opts)
    IN  { [el |-> areas[targetArea(contents[j], j - 1)].el, item |-> j - 1] :
            j \in mountPlan(opts, areas).texts }

----------------------------------------------------------------------------
(* setOptions(): the call, and its continuations after each await.         *)

\* setOptions() calls in a behaviour.
MaxCalls == 3
\* setOptions() calls in a behaviour whose calls may overlap.
MaxOverlap == 2

OptionsStd ==
    [ themePath |-> Some(ThemeA),
      contents |-> Some(<<ImageItem(Some(0), Some(Photo)), TextItem(Some(1))>>) ]
OptionsNoTheme == [OptionsStd EXCEPT !.themePath = None]

ControllerOptions == {OptionsStd, OptionsNoTheme}

EmptyRaw == [front |-> None, back |-> None, contentArea |-> None]

RawFramed ==
    [ front |-> Some([EmptySide EXCEPT !.image = Some(FrameA)]),
      back |-> Some([EmptySide EXCEPT !.image = Some(FrameB), !.background = Some("#f5f5f5")]),
      contentArea |-> Some(<<
          [EmptyArea EXCEPT !.area = Some(0), !.side = Some("front"), !.x = Some(Num(46, 1)),
                            !.y = Some(Num(46, 1)), !.width = Some(Num(990, 1)),
                            !.height = Some(Num(640, 1))],
          [EmptyArea EXCEPT !.area = Some(1), !.side = Some("back"), !.x = Some(Pct(10, 1)),
                            !.y = Some(Pct(20, 1)), !.width = Some(Pct(50, 1)),
                            !.height = Some(Pct(50, 1)), !.style = {"color", "fontSize"}] >>) ]

\* Two entries with the same id on the same face: {area: 1, side: 'back'}
\* and {} at index 1.
RawSameId ==
    [EmptyRaw EXCEPT !.contentArea =
        Some(<<[EmptyArea EXCEPT !.area = Some(1), !.side = Some("back")], EmptyArea>>)]

\* A position that alignMap does not know.
RawBadPosition ==
    [EmptyRaw EXCEPT !.contentArea =
        Some(<<EmptyArea, [EmptyArea EXCEPT !.position = Some("middle")]>>)]

\* What the fetch of config.json yields: None when it fails (network error,
\* !response.ok, invalid JSON), a descriptor otherwise.
FetchResults == {None, Some(RawFramed), Some(RawSameId), Some(RawBadPosition)}

Active(cs) == {c \in DOMAIN cs : cs[c].pc # "orphan"}
Without(cs, c) == [d \in DOMAIN cs \ {c} |-> cs[d]]

\* setOptions() settles for call c; the text mounts still suspended go on.
Finish(c, rec, outcome, mounts) ==
    /\ settled' = [ id |-> c, outcome |-> outcome, kind |-> rec.kind,
                    overlapped |-> rec.overlapped, created |-> rec.created,
                    repeat |-> rec.repeat ]
    /\ calls' = IF mounts = {} THEN Without(calls, c)
                ELSE [calls EXCEPT ![c] = [rec EXCEPT !.pc = "orphan", !.mounts = mounts]]

\* The end of _init() or _updateContent() after _loadAndRender() returned:
\* the ResizeObserver (first initialisation only), show(), isInitialized.
Complete(c, rec) ==
    /\ hiddenClass' = FALSE
    /\ IF rec.kind = "init"
       THEN /\ resizeObserver' = Some(c)
            /\ observers' = observers \cup {c}
            /\ isInitialized' = TRUE
       ELSE UNCHANGED <<resizeObserver, observers, isInitialized>>
    /\ Finish(c, rec, "done", {})

\* _loadAndRender() threw: _updateContent() logs it, _init() lets it reject
\* the promise of setOptions().
Fail(c, rec, mounts) ==
    /\ Finish(c, rec, IF rec.kind = "init" THEN "rejected" ELSE "failed", mounts)
    /\ UNCHANGED <<hiddenClass, resizeObserver, observers, isInitialized>>

\* Steps 3 to 6 of _loadAndRender(), run once the image loads have settled:
\* getDimensions, _createContentAreas, _applyLayout, _mountContents.
Render(c, rec, cfg, tbl) ==
    LET els == createdElements(c, cfg)
        areas == createdAreas(c, cfg)
        opts == The(options)
        plan == mountPlan(opts, areas)
        made == [rec EXCEPT !.created = TRUE, !.pending = {}]
    IN  /\ dimensions' = Some(getDimensions(cfg, tbl))
        /\ contentAreas' = areas
        /\ layout' = Some(layoutPass(cfg, getDimensions(cfg, tbl), tbl, areas, containerRect))
        /\ frontFrame' = mountImages(frameChildren(els, TRUE), opts, areas, c)
        /\ backFrame' = mountImages(frameChildren(els, FALSE), opts, areas, c)
        /\ IF plan.thrown # {}
           THEN Fail(c, made, textMounts(opts, areas))
           ELSE IF plan.texts = {}
                THEN Complete(c, made)
                ELSE /\ calls' = [calls EXCEPT ![c] =
                                    [made EXCEPT !.pc = "mount", !.mounts = textMounts(opts, areas)]]
                     /\ UNCHANGED <<settled, hiddenClass, resizeObserver, observers, isInitialized>>

\* setOptions(o), up to the await of fetch() in _loadConfig().
SetOptions(o) ==
    /\ nCalls < MaxCalls
    /\ LET c == nCalls + 1
           kind == IF isInitialized THEN "update" ELSE "init"
           active == Active(calls)
           rec == [ kind |-> kind, themeBase |-> o.themePath, pc |-> "fetch", pending |-> {},
                    mounts |-> {}, overlapped |-> active # {}, created |-> FALSE,
                    repeat |-> options = Some(o) ]
           others == [d \in DOMAIN calls |->
                        IF d \in active THEN [calls[d] EXCEPT !.overlapped = TRUE] ELSE calls[d]]
       IN  /\ nCalls' = c
           /\ options' = Some(o)
           /\ IF kind = "update"
              THEN /\ isFlipped' = FALSE
                   /\ flippedClass' = FALSE
                   /\ frontFrame' = << >>
                   /\ backFrame' = << >>
                   /\ contentAreas' = << >>
              ELSE UNCHANGED <<isFlipped, flippedClass, frontFrame, backFrame, contentAreas>>
           /\ IF FalsyPath(o.themePath)
              THEN /\ settled' = [ id |-> c, outcome |-> IF kind = "init" THEN "rejected" ELSE "failed",
                                   kind |-> kind, overlapped |-> rec.overlapped, created |-> FALSE,
                                   repeat |-> rec.repeat ]
                   /\ calls' = others
              ELSE /\ calls' = (c :> rec) @@ others
                   /\ UNCHANGED settled
    /\ flipClean' = FALSE
    /\ flipBase' = FALSE
    /\ justHid' = "no"
    /\ UNCHANGED <<parseVars, resizeVars, layoutVars, tiltVars, parsedConfig, loadedImages,
                   dimensions, isAnimating, flipTimers,
                   isInitialized, hiddenClass, rootAttached, observerVars, tableCall, flipDropped>>

\* _loadConfig without its catch: a failed fetch ends the call.
FetchDoneNoFallback(c, result) ==
    /\ c \in DOMAIN calls
    /\ calls[c].pc = "fetch"
    /\ LET rec == calls[c]
           cfg == parse(The(result), rec.themeBase)
           tasks == loadTasks(cfg, The(options))
       IN  IF result = None
           THEN /\ Fail(c, rec, {})
                /\ UNCHANGED <<parsedConfig, loadedImages, tableCall, dimensions, layout, domVars>>
           ELSE /\ parsedConfig' = Some(cfg)
                /\ loadedImages' = << >>
                /\ tableCall' = c
                /\ IF tasks = {}
                   THEN Render(c, rec, cfg, << >>)
                   ELSE /\ calls' = [calls EXCEPT ![c] = [rec EXCEPT !.pc = "images", !.pending = tasks]]
                        /\ UNCHANGED <<dimensions, layout, domVars, settled, hiddenClass,
                                       observerVars, isInitialized>>
    /\ justHid' = "no"
    /\ UNCHANGED <<parseVars, resizeVars, containerRect, tiltVars, options, flipVars,
                   rootAttached, nCalls, flipHistory>>

\* The fetch of config.json settles for call c: parse, then _loadImages
\* resets the table and issues its loads.
FetchDone(c, result) ==
    /\ c \in DOMAIN calls
    /\ calls[c].pc = "fetch"
    /\ LET rec == calls[c]
           raw == IF result = None THEN EmptyRaw ELSE The(result)
           cfg == parse(raw, rec.themeBase)
           tasks == loadTasks(cfg, The(options))
       IN  /\ parsedConfig' = Some(cfg)
           /\ loadedImages' = << >>
           /\ tableCall' = c
           /\ IF tasks = {}
              THEN Render(c, rec, cfg, << >>)
              ELSE /\ calls' = [calls EXCEPT ![c] = [rec EXCEPT !.pc = "images", !.pending = tasks]]
                   /\ UNCHANGED <<dimensions, layout, domVars, settled, hiddenClass, observerVars,
                                  isInitialized>>
    /\ justHid' = "no"
    /\ UNCHANGED <<parseVars, resizeVars, containerRect, tiltVars, options, flipVars,
                   rootAttached, nCalls, flipHistory>>

\* A slip: the first load to settle lets the call go on (Promise.race for
\* Promise.all).
ImageSettledFirst(c, task, ok) ==
    /\ c \in DOMAIN calls
    /\ calls[c].pc = "images"
    /\ task \in calls[c].pending
    /\ LET rec == calls[c]
           tbl == IF ok THEN (task.key :> loadedEntry(task, c)) @@ loadedImages ELSE loadedImages
       IN  /\ loadedImages' = tbl
           /\ Render(c, rec, The(parsedConfig), tbl)
    /\ justHid' = "no"
    /\ UNCHANGED <<parseVars, resizeVars, containerRect, tiltVars, options, parsedConfig, flipVars,
                   rootAttached, nCalls, tableCall, flipHistory>>

\* img.onload (ok) or img.onerror of a load issued by call c.
ImageSettled(c, task, ok) ==
    /\ c \in DOMAIN calls
    /\ calls[c].pc = "images"
    /\ task \in calls[c].pending
    /\ LET rec == calls[c]
           tbl == IF ok THEN (task.key :> loadedEntry(task, c)) @@ loadedImages ELSE loadedImages
           rest == rec.pending \ {task}
       IN  /\ loadedImages' = tbl
           /\ IF rest = {}
              THEN Render(c, rec, The(parsedConfig), tbl)
              ELSE /\ calls' = [calls EXCEPT ![c] = [rec EXCEPT !.pending = rest]]
                   /\ UNCHANGED <<dimensions, layout, domVars, settled, hiddenClass, observerVars,
                                  isInitialized>>
    /\ justHid' = "no"
    /\ UNCHANGED <<parseVars, resizeVars, containerRect, tiltVars, options, parsedConfig,
                   flipVars, rootAttached, nCalls, tableCall,
                   flipHistory>>

\* parseLightMD resolves for one text item of call c: areaEl.innerHTML is set
\* on the element captured before the await.
MountDone(c, m) ==
    /\ c \in DOMAIN calls
    /\ m \in calls[c].mounts
    /\ LET rec == calls[c]
           rest == rec.mounts \ {m}
           text == Some([type |-> "text", item |-> m.item, call |-> c])
       IN  /\ frontFrame' = setContent(frontFrame, m.el, text)
           /\ backFrame' = setContent(backFrame, m.el, text)
           /\ IF rec.pc = "mount"
              THEN IF rest = {}
                   THEN Complete(c, [rec EXCEPT !.mounts = {}])
                   ELSE /\ calls' = [calls EXCEPT ![c] = [rec EXCEPT !.mounts = rest]]
                        /\ UNCHANGED <<settled, hiddenClass, observerVars, isInitialized>>
              ELSE /\ calls' = IF rest = {} THEN Without(calls, c)
                               ELSE [calls EXCEPT ![c] = [rec EXCEPT !.mounts = rest]]
                   /\ UNCHANGED <<settled, hiddenClass, observerVars, isInitialized>>
    /\ justHid' = "no"
    /\ UNCHANGED <<parseVars, resizeVars, layoutVars, tiltVars,
                   dataVars, flipVars, rootAttached, contentAreas, nCalls, tableCall,
                   flipHistory>>

----------------------------------------------------------------------------
(* Perspective tilt: the pointer and touch handlers of _bindFrameEvents,   *)
(* the animation-frame callback and _updatePerspective.                    *)

PERSPECTIVE_MAX_ROTATION == 4
PERSPECTIVE_MAX_ROTATION_MOBILE == 12

\* Pointer coordinates run over 0..MaxPointer on both axes.
MaxPointer == 2

\* perspectiveWrapper.getBoundingClientRect()
ViewportRect == [left |-> 0, top |-> 0, width |-> MaxPointer, height |-> MaxPointer]

Pointers == [x : 0..MaxPointer, y : 0..MaxPointer]

\* The rotation _updatePerspective computes for a pointer position.
tiltFor(pointer, touching) ==
    LET rect == ViewportRect
        centerX == Rat(2 * rect.left + rect.width, 2)
        centerY == Rat(2 * rect.top + rect.height, 2)
        offsetX == Div(Sub(Integer(pointer.x), centerX), Rat(rect.width, 2))
        offsetY == Div(Sub(centerY, Integer(pointer.y)), Rat(rect.height, 2))
        maxRotation == IF touching THEN PERSPECTIVE_MAX_ROTATION_MOBILE
                       ELSE PERSPECTIVE_MAX_ROTATION
    IN  [rotateX |-> Mul(offsetY, Integer(maxRotation)),
         rotateY |-> Mul(offsetX, Integer(maxRotation))]

\* _updatePerspective without its isAnimating test.
updatePerspectiveUnguarded(animating, last, touching, current) ==
    IF last = None THEN current ELSE tiltFor(The(last), touching)

\* _updatePerspective(): the transform of the viewport after the call.
updatePerspective(animating, last, touching, current) ==
    IF animating \/ last = None THEN current ELSE tiltFor(The(last), touching)

\* What the pointer handlers leave alone.
UntiltedVars ==
    <<parseVars, resizeVars, dataVars, layoutVars, isInitialized, hiddenClass, rootAttached, flipVars,
      domVars, observerVars, callVars, flipHistory>>

\* updatePointer(x, y) without its _rafPending test.
updatePointerAlwaysSchedules(pointer) ==
    IF isAnimating
    THEN UNCHANGED <<lastMouse, rafPending, rafQueued>>
    ELSE /\ lastMouse' = Some(pointer)
         /\ rafPending' = TRUE /\ rafQueued' = rafQueued + 1

\* updatePointer(x, y)
updatePointer(pointer) ==
    IF isAnimating
    THEN UNCHANGED <<lastMouse, rafPending, rafQueued>>
    ELSE /\ lastMouse' = Some(pointer)
         /\ IF ~rafPending
            THEN rafPending' = TRUE /\ rafQueued' = rafQueued + 1
            ELSE UNCHANGED <<rafPending, rafQueued>>

\* mousemove on a frame
MouseMove(pointer) ==
    /\ rootAttached
    /\ updatePointer(pointer)
    /\ justHid' = "no"
    /\ UNCHANGED <<UntiltedVars, transform, isTouching>>

\* mouseleave on a frame
MouseLeave ==
    /\ rootAttached
    /\ lastMouse' = None
    /\ transform' = updatePerspective(isAnimating, None, isTouching, transform)
    /\ justHid' = "no"
    /\ UNCHANGED <<UntiltedVars, rafPending, rafQueued, isTouching>>

\* touchstart on a frame
TouchStart(pointer) ==
    /\ rootAttached
    /\ IF isAnimating
       THEN UNCHANGED <<isTouching, lastMouse, transform>>
       ELSE /\ isTouching' = TRUE
            /\ lastMouse' = Some(pointer)
            /\ transform' = updatePerspective(isAnimating, Some(pointer), TRUE, transform)
    /\ justHid' = "no"
    /\ UNCHANGED <<UntiltedVars, rafPending, rafQueued>>

\* touchmove on a frame
TouchMove(pointer) ==
    /\ rootAttached
    /\ IF ~isTouching \/ isAnimating
       THEN UNCHANGED <<lastMouse, rafPending, rafQueued>>
       ELSE updatePointer(pointer)
    /\ justHid' = "no"
    /\ UNCHANGED <<UntiltedVars, transform, isTouching>>

\* touchend on a frame
TouchEnd ==
    /\ rootAttached
    /\ isTouching' = FALSE
    /\ lastMouse' = None
    /\ transform' = updatePerspective(isAnimating, None, FALSE, transform)
    /\ justHid' = "no"
    /\ UNCHANGED <<UntiltedVars, rafPending, rafQueued>>

\* The callback given to requestAnimationFrame by updatePointer
AnimationFrame ==
    /\ rafQueued > 0
    /\ rafQueued' = rafQueued - 1
    /\ rafPending' = FALSE
    /\ transform' = updatePerspective(isAnimating, lastMouse, isTouching, transform)
    /\ justHid' = "no"
    /\ UNCHANGED <<UntiltedVars, lastMouse, isTouching>>

----------------------------------------------------------------------------
(* The ResizeObserver callback of _init() and its 100 ms timer.            *)

\* The rects the root element takes when the container is resized.
Narrow == [width |-> 200, height |-> 300]
Rects == {Container, Narrow}

\* What the observer callback and its timer leave alone.
UnresizedVars ==
    <<parseVars, dataVars, tiltVars, isInitialized, hiddenClass, rootAttached, flipVars,
      domVars, observerVars, callVars, flipHistory>>

\* The observer callback without its clearTimeout.
ResizeNotifyNoClear(rect) ==
    /\ observers # {}
    /\ containerRect' = rect
    /\ resizeTimers' = resizeTimers + 1
    /\ resizeTimeout' = TRUE
    /\ relayouts' = 0
    /\ justHid' = "no"
    /\ UNCHANGED <<UnresizedVars, layout>>

\* A ResizeObserver of the container calls back, the root element now having
\* the given rect: clearTimeout(this.resizeTimeout), then a new timer.
ResizeNotify(rect) ==
    /\ observers # {}
    /\ containerRect' = rect
    /\ resizeTimers' = (IF resizeTimeout THEN resizeTimers - 1 ELSE resizeTimers) + 1
    /\ resizeTimeout' = TRUE
    /\ relayouts' = 0
    /\ justHid' = "no"
    /\ UNCHANGED <<UnresizedVars, layout>>

\* The callback of setTimeout(..., 100): timers of one delay expire oldest
\* first, and this.resizeTimeout names the newest.
ResizeTimer ==
    /\ resizeTimers > 0
    /\ resizeTimers' = resizeTimers - 1
    /\ resizeTimeout' = (resizeTimeout /\ resizeTimers > 1)
    /\ IF isInitialized
       THEN /\ layout' = Some(layoutPass(The(parsedConfig), The(dimensions), loadedImages,
                                         contentAreas, containerRect))
            /\ relayouts' = relayouts + 1
       ELSE UNCHANGED <<layout, relayouts>>
    /\ justHid' = "no"
    /\ UNCHANGED <<UnresizedVars, containerRect>>

----------------------------------------------------------------------------
(* flip(), its timer, reset(), show(), hide(), destroy().                  *)

\* flip() without its isAnimating guard.
FlipUnguarded ==
    /\ isAnimating' = TRUE
    /\ transform' = Neutral
    /\ isFlipped' = ~isFlipped
    /\ flippedClass' = ~isFlipped
    /\ flipTimers' = flipTimers + 1
    /\ IF flipTimers = 0
       THEN flipBase' = isFlipped /\ flipClean' = TRUE /\ flipDropped' = FALSE
       ELSE flipDropped' = TRUE /\ UNCHANGED <<flipBase, flipClean>>
    /\ justHid' = "no"
    /\ UNCHANGED <<parseVars, resizeVars, layoutVars, lastMouse, rafPending, rafQueued, isTouching,
                   dataVars, isInitialized, hiddenClass, rootAttached, domVars,
                   observerVars, callVars>>

\* flip()
Flip ==
    /\ IF isAnimating
       THEN /\ flipDropped' = TRUE
            /\ UNCHANGED <<flipVars, flipBase, flipClean, transform>>
       ELSE /\ isAnimating' = TRUE
            /\ transform' = Neutral
            /\ isFlipped' = ~isFlipped
            /\ flippedClass' = ~isFlipped
            /\ flipTimers' = flipTimers + 1
            /\ IF flipTimers = 0
               THEN flipBase' = isFlipped /\ flipClean' = TRUE /\ flipDropped' = FALSE
               ELSE UNCHANGED flipHistory
    /\ justHid' = "no"
    /\ UNCHANGED <<parseVars, resizeVars, layoutVars, lastMouse, rafPending, rafQueued, isTouching,
                   dataVars, isInitialized, hiddenClass, rootAttached, domVars,
                   observerVars, callVars>>

\* A flip timer whose callback leaves isAnimating set.
FlipTimerKeepsAnimating ==
    /\ flipTimers > 0
    /\ flipTimers' = flipTimers - 1
    /\ flipBase' = FALSE
    /\ flipClean' = FALSE
    /\ flipDropped' = FALSE
    /\ justHid' = "no"
    /\ UNCHANGED <<parseVars, resizeVars, layoutVars, tiltVars,
                   dataVars, isFlipped, isAnimating, flippedClass, isInitialized,
                   hiddenClass, rootAttached, domVars, observerVars, callVars>>

\* The callback of setTimeout(..., 600) in flip().
FlipTimer ==
    /\ flipTimers > 0
    /\ flipTimers' = flipTimers - 1
    /\ isAnimating' = FALSE
    /\ flipBase' = FALSE
    /\ flipClean' = FALSE
    /\ flipDropped' = FALSE
    /\ justHid' = "no"
    /\ UNCHANGED <<parseVars, resizeVars, layoutVars, tiltVars,
                   dataVars, isFlipped, flippedClass, isInitialized, hiddenClass,
                   rootAttached, domVars, observerVars, callVars>>

\* reset() that leaves the flipped marker on the root.
ResetKeepsMarker ==
    /\ isFlipped' = FALSE
    /\ flipBase' = FALSE
    /\ flipClean' = FALSE
    /\ justHid' = "no"
    /\ UNCHANGED <<parseVars, resizeVars, layoutVars, tiltVars,
                   dataVars, flippedClass, isAnimating, flipTimers, isInitialized,
                   hiddenClass, rootAttached, domVars, observerVars, callVars, flipDropped>>

\* reset() that also ends the animation window.
ResetEndsAnimation ==
    /\ isFlipped' = FALSE
    /\ flippedClass' = FALSE
    /\ isAnimating' = FALSE
    /\ flipBase' = FALSE
    /\ flipClean' = FALSE
    /\ justHid' = "no"
    /\ UNCHANGED <<parseVars, resizeVars, layoutVars, tiltVars,
                   dataVars, flipTimers, isInitialized, hiddenClass,
                   rootAttached, domVars, observerVars, callVars, flipDropped>>

\* reset()
Reset ==
    /\ isFlipped' = FALSE
    /\ flippedClass' = FALSE
    /\ flipBase' = FALSE
    /\ flipClean' = FALSE
    /\ justHid' = "no"
    /\ UNCHANGED <<parseVars, resizeVars, layoutVars, tiltVars,
                   dataVars, isAnimating, flipTimers, isInitialized, hiddenClass,
                   rootAttached, domVars, observerVars, callVars, flipDropped>>

\* show()
Show ==
    /\ hiddenClass' = FALSE
    /\ justHid' = IF justHid = "hidFlipped" THEN "restored" ELSE "no"
    /\ UNCHANGED <<parseVars, resizeVars, layoutVars, tiltVars,
                   dataVars, flipVars, isInitialized, rootAttached, domVars,
                   observerVars, callVars, flipHistory>>

\* hide() without its call of reset().
HideNoReset ==
    /\ hiddenClass' = TRUE
    /\ justHid' = IF isFlipped THEN "hidFlipped" ELSE "hid"
    /\ UNCHANGED <<parseVars, resizeVars, layoutVars, tiltVars,
                   dataVars, flipVars, isInitialized, rootAttached, domVars,
                   observerVars, callVars, flipHistory>>

\* hide(): the hidden marker, then reset()
Hide ==
    /\ hiddenClass' = TRUE
    /\ isFlipped' = FALSE
    /\ flippedClass' = FALSE
    /\ flipBase' = FALSE
    /\ flipClean' = FALSE
    /\ justHid' = IF isFlipped THEN "hidFlipped" ELSE "hid"
    /\ UNCHANGED <<parseVars, resizeVars, layoutVars, tiltVars,
                   dataVars, isAnimating, flipTimers, isInitialized, rootAttached,
                   domVars, observerVars, callVars, flipDropped>>

\* isVisible()
isVisible == ~hiddenClass

\* destroy(): the callback this.rafId names is cancelled, the observer
\* this.resizeObserver holds is disconnected, the timer this.resizeTimeout
\* names is cleared, the container is emptied, the map is cleared; no field
\* marks the controller.
Destroy ==
    /\ observers' = IF resizeObserver = None THEN observers ELSE observers \ resizeObserver
    /\ resizeObserver' = None
    /\ rootAttached' = FALSE
    /\ contentAreas' = << >>
    /\ rafQueued' = IF rafQueued > 0 THEN rafQueued - 1 ELSE 0
    /\ resizeTimers' = IF resizeTimeout THEN resizeTimers - 1 ELSE resizeTimers
    /\ resizeTimeout' = FALSE
    /\ justHid' = "no"
    /\ UNCHANGED <<parseVars, relayouts, layoutVars, transform, lastMouse, rafPending, isTouching,
                   dataVars, flipVars, isInitialized, hiddenClass, frontFrame,
                   backFrame, callVars, flipHistory>>

----------------------------------------------------------------------------
(* RealPicViewer, the modal shell around one RealPic controller.  The      *)
(* sources hold two copies of the class: unnamed/part_000, whose show()    *)
(* has the isLoading guard and preloads the resources, and lines 1-200 of  *)
(* realpic_viewer.js, whose show() has neither (the definitions named      *)
(* ...Old).  close(), destroy() and the flip button are the same in both.  *)

originPath == <<"/", "images", "/">>
themesPath == <<"/", "static", "/", "realpic", "/", "themes", "/">>
defaultTheme == ""
defaultThemeOld == "zmd"

\* show() calls in a behaviour that get past the guards.
MaxShows == 2

\* Image metadata handed to show(): a named theme, a blank one.
ViewerImages ==
    { [filename |-> "photo.jpg", theme |-> Some("postcard")],
      [filename |-> "photo.jpg", theme |-> Some(" ")] }

\* getThemePath(theme): `${themesPath}${theme}/`, with the default theme
\* when theme is missing, empty or blank.
getThemePath(theme, default) ==
    LET name == IF Falsy(theme) \/ theme = Some(" ") THEN default ELSE The(theme)
    IN  themesPath \o (IF name = "" THEN << >> ELSE <<name>>) \o <<"/">>

\* The options show() hands to RealPic.setOptions().
showOptions(image, default) ==
    [ themePath |-> Some(getThemePath(image.theme, default)),
      contents |-> Some(<<ImageItem(Some(0), Some(originPath \o <<image.filename>>)),
                          TextItem(Some(1))>>) ]

NoViewer ==
    [ realpic |-> FALSE, isOpen |-> FALSE, isLoading |-> FALSE, active |-> FALSE,
      loading |-> FALSE, onOpen |-> FALSE, onClose |-> FALSE ]

\* The viewer its constructor leaves, with or without an onOpen callback.
NewViewer(onOpen) == [NoViewer EXCEPT !.realpic = TRUE, !.onOpen = onOpen]

InitNoViewer ==
    /\ viewer = NoViewer
    /\ shows = << >>
    /\ nShows = 0
    /\ hideTimers = 0
    /\ closeTimers = 0
    /\ showDropped = FALSE

\* modal 'active' and 'loading', this.isOpen = true
openModal(v) == [v EXCEPT !.active = TRUE, !.loading = TRUE, !.isOpen = TRUE]

\* The finally block of show().
finally(v) == [v EXCEPT !.loading = FALSE, !.isLoading = FALSE]

\* show(image), up to its first await: of onOpen when there is one, of
\* _preloadResources otherwise.
ViewerShow(image) ==
    /\ viewer.realpic
    /\ IF viewer.isLoading
       THEN /\ showDropped' = TRUE
            /\ UNCHANGED <<viewer, shows, nShows>>
       ELSE /\ nShows < MaxShows
            /\ nShows' = nShows + 1
            /\ viewer' = IF viewer.onOpen THEN [viewer EXCEPT !.isLoading = TRUE]
                         ELSE openModal([viewer EXCEPT !.isLoading = TRUE])
            /\ shows' = (nShows + 1 :> [ pc |-> IF viewer.onOpen THEN "onOpen" ELSE "preload",
                                         image |-> image, call |-> 0 ]) @@ shows
            /\ UNCHANGED showDropped
    /\ UNCHANGED <<hideTimers, closeTimers, parseVars, dataVars, ctlVars>>

\* onOpen(image) settles: show() goes on to open the modal and to preload,
\* or, onOpen having rejected, ends before its try block.
OnOpenDone(s, ok) ==
    /\ s \in DOMAIN shows
    /\ shows[s].pc = "onOpen"
    /\ IF ok
       THEN /\ viewer' = openModal(viewer)
            /\ shows' = [shows EXCEPT ![s].pc = "preload"]
       ELSE /\ shows' = Without(shows, s)
            /\ UNCHANGED viewer
    /\ UNCHANGED <<nShows, hideTimers, closeTimers, showDropped, parseVars, dataVars, ctlVars>>

\* _preloadResources resolves (it never rejects): this.realpic.setOptions(...)
\* is called; on a destroyed viewer this.realpic is null, the TypeError is
\* caught and the finally block runs.
PreloadDone(s) ==
    /\ s \in DOMAIN shows
    /\ shows[s].pc = "preload"
    /\ IF viewer.realpic
       THEN /\ SetOptions(showOptions(shows[s].image, defaultTheme))
            /\ IF nCalls + 1 \in Active(calls')
               THEN /\ shows' = [shows EXCEPT ![s].pc = "setOptions", ![s].call = nCalls + 1]
                    /\ UNCHANGED <<viewer, showDropped>>
               ELSE /\ shows' = Without(shows, s)
                    /\ viewer' = finally(viewer)
                    /\ showDropped' = FALSE
       ELSE /\ shows' = Without(shows, s)
            /\ viewer' = finally(viewer)
            /\ showDropped' = FALSE
            /\ UNCHANGED <<parseVars, dataVars, ctlVars>>
    /\ UNCHANGED <<nShows, hideTimers, closeTimers>>

\* The show() calls whose setOptions() settles in this step.
settling == {s \in DOMAIN shows : shows[s].pc = "setOptions" /\ shows[s].call \notin Active(calls')}

\* What show() does once its setOptions() has settled: catch logs a
\* rejection, finally clears the loading state.
AfterSetOptions ==
    /\ shows' = [s \in DOMAIN shows \ settling |-> shows[s]]
    /\ viewer' = IF settling = {} THEN viewer ELSE finally(viewer)
    /\ showDropped' = IF settling = {} THEN showDropped ELSE FALSE
    /\ UNCHANGED <<nShows, hideTimers, closeTimers>>

\* close() without its isOpen test.
ViewerCloseUnguarded ==
    /\ viewer' = [viewer EXCEPT !.active = FALSE, !.isOpen = FALSE]
    /\ hideTimers' = hideTimers + 1
    /\ closeTimers' = IF viewer.onClose THEN closeTimers + 1 ELSE closeTimers
    /\ UNCHANGED <<shows, nShows, showDropped, parseVars, dataVars, ctlVars>>

\* close(): by the close button, a click on the backdrop, or Escape.
ViewerClose ==
    /\ IF ~viewer.isOpen
       THEN UNCHANGED <<viewer, hideTimers, closeTimers>>
       ELSE /\ viewer' = [viewer EXCEPT !.active = FALSE, !.isOpen = FALSE]
            /\ hideTimers' = hideTimers + 1
            /\ closeTimers' = IF viewer.onClose THEN closeTimers + 1 ELSE closeTimers
    /\ UNCHANGED <<shows, nShows, showDropped, parseVars, dataVars, ctlVars>>

\* The first callback of setTimeout(..., 300) in close(): this.realpic?.hide().
\* Timers of one delay run in the order they were set, so the onClose
\* callback of an earlier close() has run.
ViewerHideTimer ==
    /\ hideTimers > 0
    /\ closeTimers <= hideTimers
    /\ hideTimers' = hideTimers - 1
    /\ IF viewer.realpic THEN Hide ELSE UNCHANGED <<parseVars, dataVars, ctlVars>>
    /\ UNCHANGED <<viewer, shows, nShows, closeTimers, showDropped>>

\* The second callback of setTimeout(..., 300) in close(): this.options.onClose(),
\* after the hide() callback of the same close().
ViewerCloseTimer ==
    /\ closeTimers > hideTimers
    /\ closeTimers' = closeTimers - 1
    /\ UNCHANGED <<viewer, shows, nShows, hideTimers, showDropped, parseVars, dataVars, ctlVars>>

\* The flip button, or a click on a frame: this.realpic?.flip()
ViewerFlip ==
    /\ viewer.realpic
    /\ Flip
    /\ UNCHANGED viewerVars

\* destroy(): this.realpic?.destroy(); this.realpic = null
ViewerDestroy ==
    /\ viewer.realpic
    /\ Destroy
    /\ viewer' = [viewer EXCEPT !.realpic = FALSE]
    /\ UNCHANGED <<shows, nShows, hideTimers, closeTimers, showDropped>>

\* realpic_viewer.js, show() from `await this.realpic.setOptions(...)` on:
\* the modal opens once the call has resolved; a rejection, or the TypeError
\* on a destroyed viewer, ends show() before.
CallSetOptionsOld(s, image) ==
    IF viewer.realpic
    THEN /\ SetOptions(showOptions(image, defaultThemeOld))
         /\ IF nCalls + 1 \in Active(calls')
            THEN /\ shows' = (s :> [pc |-> "setOptions", image |-> image, call |-> nCalls + 1])
                                @@ shows
                 /\ UNCHANGED viewer
            ELSE /\ shows' = Without(shows, s)
                 /\ viewer' = IF settled'.outcome = "rejected" THEN viewer
                              ELSE [viewer EXCEPT !.active = TRUE, !.isOpen = TRUE]
    ELSE /\ shows' = Without(shows, s)
         /\ UNCHANGED <<viewer, parseVars, dataVars, ctlVars>>

\* realpic_viewer.js, show(image) up to its first await.
ViewerShowOld(image) ==
    /\ viewer.realpic
    /\ nShows < MaxShows
    /\ nShows' = nShows + 1
    /\ IF viewer.onOpen
       THEN /\ shows' = (nShows + 1 :> [pc |-> "onOpen", image |-> image, call |-> 0]) @@ shows
            /\ UNCHANGED <<viewer, parseVars, dataVars, ctlVars>>
       ELSE CallSetOptionsOld(nShows + 1, image)
    /\ UNCHANGED <<hideTimers, closeTimers, showDropped>>

\* realpic_viewer.js, onOpen(image) settles.
OnOpenDoneOld(s, ok) ==
    /\ s \in DOMAIN shows
    /\ shows[s].pc = "onOpen"
    /\ IF ok
       THEN CallSetOptionsOld(s, shows[s].image)
       ELSE /\ shows' = Without(shows, s)
            /\ UNCHANGED <<viewer, parseVars, dataVars, ctlVars>>
    /\ UNCHANGED <<nShows, hideTimers, closeTimers, showDropped>>

\* realpic_viewer.js, show() once its setOptions() has settled.
AfterSetOptionsOld ==
    /\ shows' = [s \in DOMAIN shows \ settling |-> shows[s]]
    /\ viewer' = IF settling = {} \/ settled'.outcome = "rejected" THEN viewer
                 ELSE [viewer EXCEPT !.active = TRUE, !.isOpen = TRUE]
    /\ UNCHANGED <<nShows, hideTimers, closeTimers, showDropped>>


(***************************************************************************)
(* Specification Spec: one RealPic controller whose caller awaits each     *)
(* setOptions() before the next (as the documented usage does), under      *)
(* every interleaving of flip(), reset(), show(), hide() and destroy()     *)
(* with the completions of the call in flight and of the flip timer.       *)
(***************************************************************************)

Init ==
    /\ rawConfig = EmptyRaw
    /\ phase = "idle"
    /\ options = None
    /\ parsedConfig = None
    /\ loadedImages = << >>
    /\ dimensions = None
    /\ InitController
    /\ containerRect = Container
    /\ InitNoDimension
    /\ InitNoViewer

Step(A) == A /\ UNCHANGED viewerVars

Next ==
    \/ Step(Active(calls) = {} /\ \E o \in ControllerOptions : SetOptions(o))
    \/ Step(\E c \in DOMAIN calls, r \in FetchResults : FetchDone(c, r))
    \/ Step(\E c \in DOMAIN calls : \E t \in calls[c].pending, ok \in BOOLEAN : ImageSettled(c, t, ok))
    \/ Step(\E c \in DOMAIN calls : \E m \in calls[c].mounts : MountDone(c, m))
    \/ Step(Flip)
    \/ Step(FlipTimer)
    \/ Step(Reset)
    \/ Step(Show)
    \/ Step(Hide)
    \/ Step(Destroy)

Spec == Init /\ [][Next]_vars

(***************************************************************************)
(* Specification SpecLoad: setOptions() calls that are not awaited, so     *)
(* that up to MaxOverlap calls are in flight together, with the documented *)
(* options and a theme whose fetch fails or yields a framed descriptor.    *)
(* flip(), reset(), show() and hide() read and write no field of the load  *)
(* path and are left to Spec.                                              *)
(***************************************************************************)

NextLoad ==
    \/ Step(nCalls < MaxOverlap /\ SetOptions(OptionsStd))
    \/ Step(\E c \in DOMAIN calls, r \in {None, Some(RawFramed)} : FetchDone(c, r))
    \/ Step(\E c \in DOMAIN calls : \E t \in calls[c].pending, ok \in BOOLEAN : ImageSettled(c, t, ok))
    \/ Step(\E c \in DOMAIN calls : \E m \in calls[c].mounts : MountDone(c, m))
    \/ Step(Destroy)

SpecLoad == Init /\ [][NextLoad]_vars

----------------------------------------------------------------------------
(* The tilt handlers together with flip() and its timer.                   *)

NextTilt ==
    \/ Step(\E p \in Pointers : MouseMove(p))
    \/ Step(MouseLeave)
    \/ Step(\E p \in Pointers : TouchStart(p))
    \/ Step(\E p \in Pointers : TouchMove(p))
    \/ Step(TouchEnd)
    \/ Step(AnimationFrame)
    \/ Step(Flip)
    \/ Step(FlipTimer)
    \/ Step(Destroy)

SpecTilt == Init /\ [][NextTilt]_vars

----------------------------------------------------------------------------
(* Mouse moves and touch moves alone, with the frame callback they         *)
(* schedule; touchstart is what lets a touch move count.                   *)

NextMoves ==
    \/ Step(\E p \in Pointers : MouseMove(p))
    \/ Step(\E p \in Pointers : TouchStart(p))
    \/ Step(\E p \in Pointers : TouchMove(p))
    \/ Step(AnimationFrame)

SpecMoves == Init /\ [][NextMoves]_vars

----------------------------------------------------------------------------
(* One controller, initialised by an awaited setOptions() call and updated  *)
(* by later ones, whose container is resized at any moment.                *)

MaxResized == 2

NextResize ==
    \/ Step(/\ nCalls < MaxResized
            /\ Active(calls) = {}
            /\ SetOptions(OptionsStd))
    \/ Step(\E c \in DOMAIN calls : \E r \in {None, Some(RawFramed)} : FetchDone(c, r))
    \/ Step(\E c \in DOMAIN calls : \E t \in calls[c].pending, ok \in BOOLEAN : ImageSettled(c, t, ok))
    \/ Step(\E c \in DOMAIN calls : \E m \in calls[c].mounts : MountDone(c, m))
    \/ Step(\E rect \in Rects : ResizeNotify(rect))
    \/ Step(ResizeTimer)
    \/ Step(Destroy)

SpecResize == Init /\ [][NextResize]_vars

----------------------------------------------------------------------------
(* One initialisation, then reset() at any moment among mouse moves, frame *)
(* callbacks, flips, flip timers, hide() and show().                       *)

NextReset ==
    \/ Step(nCalls = 0 /\ SetOptions(OptionsStd))
    \/ Step(\E c \in DOMAIN calls, r \in {None, Some(RawFramed)} : FetchDone(c, r))
    \/ Step(\E c \in DOMAIN calls : \E t \in calls[c].pending, ok \in BOOLEAN : ImageSettled(c, t, ok))
    \/ Step(\E c \in DOMAIN calls : \E m \in calls[c].mounts : MountDone(c, m))
    \/ Step(\E p \in Pointers : MouseMove(p))
    \/ Step(AnimationFrame)
    \/ Step(Flip)
    \/ Step(FlipTimer)
    \/ Step(Hide)
    \/ Step(Show)
    \/ Step(Reset)

SpecReset == Init /\ [][NextReset]_vars

----------------------------------------------------------------------------
(* Awaited setOptions() calls whose image loads all complete.              *)

MaxAwaited == 2

NextAwaited ==
    \/ Step(nCalls < MaxAwaited /\ Active(calls) = {} /\ SetOptions(OptionsStd))
    \/ Step(\E c \in DOMAIN calls, r \in {None, Some(RawFramed)} : FetchDone(c, r))
    \/ Step(\E c \in DOMAIN calls : \E t \in calls[c].pending, ok \in BOOLEAN : ImageSettled(c, t, ok))
    \/ Step(\E c \in DOMAIN calls : \E m \in calls[c].mounts : MountDone(c, m))

\* Every image load that was issued completes, by onload or onerror.
LoadsComplete ==
    WF_vars(Step(\E c \in DOMAIN calls : \E t \in calls[c].pending, ok \in BOOLEAN :
                    ImageSettled(c, t, ok)))

SpecAwaited == Init /\ [][NextAwaited]_vars /\ LoadsComplete

----------------------------------------------------------------------------
(* flip() among reset(), hide(), show(), awaited setOptions() calls and    *)
(* destroy(), the timer of flip() running once it is due.                  *)

NextFlip ==
    \/ Step(nCalls < MaxAwaited /\ Active(calls) = {} /\ SetOptions(OptionsStd))
    \/ Step(\E c \in DOMAIN calls, r \in {None, Some(RawFramed)} : FetchDone(c, r))
    \/ Step(\E c \in DOMAIN calls : \E t \in calls[c].pending, ok \in BOOLEAN : ImageSettled(c, t, ok))
    \/ Step(\E c \in DOMAIN calls : \E m \in calls[c].mounts : MountDone(c, m))
    \/ Step(Flip)
    \/ Step(FlipTimer)
    \/ Step(Reset)
    \/ Step(Hide)
    \/ Step(Show)
    \/ Step(Destroy)

\* A timer that was set expires.
FlipTimerRuns == WF_vars(Step(FlipTimer))

SpecFlip == Init /\ [][NextFlip]_vars /\ FlipTimerRuns

(***************************************************************************)
(* Specification SpecViewer: the RealPicViewer of unnamed/part_000 and its *)
(* controller, under every interleaving of show(), close(), the flip       *)
(* button and destroy() with the completions of onOpen, of the preload, of *)
(* the controller's loads and of the timers.                               *)
(***************************************************************************)

InitViewer ==
    /\ rawConfig = EmptyRaw
    /\ phase = "idle"
    /\ options = None
    /\ parsedConfig = None
    /\ loadedImages = << >>
    /\ dimensions = None
    /\ InitController
    /\ containerRect = Container
    /\ InitNoDimension
    /\ viewer \in {NewViewer(onOpen) : onOpen \in BOOLEAN}
    /\ shows = << >>
    /\ nShows = 0
    /\ hideTimers = 0
    /\ closeTimers = 0
    /\ showDropped = FALSE

\* What the fetch of a theme's config.json yields here: nothing, or a
\* descriptor with sizes and a background and without frame images.
RawPlain ==
    [EmptyRaw EXCEPT !.front = Some([EmptySide EXCEPT !.width = Some(1200), !.height = Some(800)]),
                     !.back = Some([EmptySide EXCEPT !.background = Some("#f5f5f5")])]

ThemeFetches == {None, Some(RawPlain)}

NextViewer ==
    \/ \E image \in ViewerImages : ViewerShow(image)
    \/ \E s \in DOMAIN shows, ok \in BOOLEAN : OnOpenDone(s, ok)
    \/ \E s \in DOMAIN shows : PreloadDone(s)
    \/ (\E c \in DOMAIN calls, r \in ThemeFetches : FetchDone(c, r)) /\ AfterSetOptions
    \/ (\E c \in DOMAIN calls : \E t \in calls[c].pending, ok \in BOOLEAN : ImageSettled(c, t, ok))
          /\ AfterSetOptions
    \/ (\E c \in DOMAIN calls : \E m \in calls[c].mounts : MountDone(c, m)) /\ AfterSetOptions
    \/ ViewerFlip
    \/ Step(FlipTimer)
    \/ ViewerClose
    \/ ViewerHideTimer
    \/ ViewerDestroy

SpecViewer == InitViewer /\ [][NextViewer]_vars

----------------------------------------------------------------------------
(* The viewer of unnamed/part_000 without an onOpen hook, with or without  *)
(* an onClose hook: show(), close() at any moment, the two timers of       *)
(* close(), destroy().                                                     *)

InitClose ==
    /\ rawConfig = EmptyRaw
    /\ phase = "idle"
    /\ options = None
    /\ parsedConfig = None
    /\ loadedImages = << >>
    /\ dimensions = None
    /\ InitController
    /\ containerRect = Container
    /\ InitNoDimension
    /\ viewer \in {[NewViewer(FALSE) EXCEPT !.onClose = onClose] : onClose \in BOOLEAN}
    /\ shows = << >>
    /\ nShows = 0
    /\ hideTimers = 0
    /\ closeTimers = 0
    /\ showDropped = FALSE

NextClose ==
    \/ \E image \in ViewerImages : ViewerShow(image)
    \/ \E s \in DOMAIN shows : PreloadDone(s)
    \/ (\E c \in DOMAIN calls, r \in ThemeFetches : FetchDone(c, r)) /\ AfterSetOptions
    \/ (\E c \in DOMAIN calls : \E t \in calls[c].pending, ok \in BOOLEAN : ImageSettled(c, t, ok))
          /\ AfterSetOptions
    \/ (\E c \in DOMAIN calls : \E m \in calls[c].mounts : MountDone(c, m)) /\ AfterSetOptions
    \/ ViewerClose
    \/ ViewerHideTimer
    \/ ViewerCloseTimer
    \/ ViewerDestroy

SpecClose == InitClose /\ [][NextClose]_vars

----------------------------------------------------------------------------
(* show() calls of the viewer of unnamed/part_000, with or without an      *)
(* onOpen hook, where every hook, preload, fetch, image load and text      *)
(* mount that was started completes.                                       *)

NextShow ==
    \/ \E image \in ViewerImages : ViewerShow(image)
    \/ \E s \in DOMAIN shows, ok \in BOOLEAN : OnOpenDone(s, ok)
    \/ \E s \in DOMAIN shows : PreloadDone(s)
    \/ (\E c \in DOMAIN calls, r \in ThemeFetches : FetchDone(c, r)) /\ AfterSetOptions
    \/ (\E c \in DOMAIN calls : \E t \in calls[c].pending, ok \in BOOLEAN : ImageSettled(c, t, ok))
          /\ AfterSetOptions
    \/ (\E c \in DOMAIN calls : \E m \in calls[c].mounts : MountDone(c, m)) /\ AfterSetOptions

\* The promise of onOpen settles, the preload ends, the fetch of the theme
\* ends, every image load ends, every text mount ends.
ShowCompletes ==
    /\ WF_vars(\E s \in DOMAIN shows, ok \in BOOLEAN : OnOpenDone(s, ok))
    /\ WF_vars(\E s \in DOMAIN shows : PreloadDone(s))
    /\ WF_vars((\E c \in DOMAIN calls, r \in ThemeFetches : FetchDone(c, r)) /\ AfterSetOptions)
    /\ WF_vars((\E c \in DOMAIN calls : \E t \in calls[c].pending, ok \in BOOLEAN :
                    ImageSettled(c, t, ok)) /\ AfterSetOptions)
    /\ WF_vars((\E c \in DOMAIN calls : \E m \in calls[c].mounts : MountDone(c, m))
                  /\ AfterSetOptions)

SpecShow == InitViewer /\ [][NextShow]_vars /\ ShowCompletes

(***************************************************************************)
(* Specification SpecViewerOld: the same with the RealPicViewer of         *)
(* realpic_viewer.js, whose show() calls overlap.                           *)
(***************************************************************************)

NextViewerOld ==
    \/ \E image \in ViewerImages : ViewerShowOld(image)
    \/ \E s \in DOMAIN shows, ok \in BOOLEAN : OnOpenDoneOld(s, ok)
    \/ (\E c \in DOMAIN calls, r \in ThemeFetches : FetchDone(c, r)) /\ AfterSetOptionsOld
    \/ (\E c \in DOMAIN calls : \E t \in calls[c].pending, ok \in BOOLEAN : ImageSettled(c, t, ok))
          /\ AfterSetOptionsOld
    \/ (\E c \in DOMAIN calls : \E m \in calls[c].mounts : MountDone(c, m)) /\ AfterSetOptionsOld
    \/ ViewerFlip
    \/ Step(FlipTimer)
    \/ ViewerClose
    \/ ViewerHideTimer
    \/ ViewerDestroy

SpecViewerOld == InitViewer /\ [][NextViewerOld]_vars

----------------------------------------------------------------------------
(* Specification SpecParse: ConfigParser.parse, the image loads and        *)
(* ConfigParser.getDimensions applied to bounded inputs.                   *)

InitParse ==
    /\ rawConfig \in RawConfigs
    /\ phase = "raw"
    /\ options \in {Some(o) : o \in ParseOptions}
    /\ parsedConfig = None
    /\ loadedImages = << >>
    /\ dimensions = None
    /\ InitController
    /\ containerRect = Container
    /\ InitNoDimension
    /\ InitNoViewer

\* this.parsedConfig = ConfigParser.parse(rawConfig, themeBase)
DoParse ==
    /\ phase = "raw"
    /\ parsedConfig' = Some(parse(rawConfig, The(options).themePath))
    /\ phase' = "parsed"
    /\ UNCHANGED <<rawConfig, options, loadedImages, dimensions, ctlVars, dimInput, dimOutput, frameInput, frameOutput>>

\* _loadImages, every load settled: the loads that succeeded left an entry.
DoLoadImages ==
    /\ phase = "parsed"
    /\ \E ok \in SUBSET loadTasks(The(parsedConfig), The(options)) :
          loadedImages' = [k \in {t.key : t \in ok} |->
                              loadedEntry(CHOOSE t \in ok : t.key = k, 0)]
    /\ phase' = "loaded"
    /\ UNCHANGED <<rawConfig, options, parsedConfig, dimensions, ctlVars, dimInput, dimOutput, frameInput, frameOutput>>

\* this.dimensions = ConfigParser.getDimensions(this.parsedConfig, this.loadedImages)
DoGetDimensions ==
    /\ phase = "loaded"
    /\ dimensions' = Some(getDimensions(The(parsedConfig), loadedImages))
    /\ phase' = "dims"
    /\ UNCHANGED <<rawConfig, options, parsedConfig, loadedImages, ctlVars, dimInput, dimOutput, frameInput, frameOutput>>

NextParse == Step(DoParse) \/ Step(DoLoadImages) \/ Step(DoGetDimensions)

SpecParse == InitParse /\ [][NextParse]_vars

----------------------------------------------------------------------------
(* _parseDimension on its own: the inputs are drawn from bounded sets.     *)

MaxTenths == 25
MaxBase == 4

\* The numbers -MaxTenths/10 .. MaxTenths/10 in steps of 0.1
DimNumbers == {Rat(k, 10) : k \in -MaxTenths..MaxTenths}

Percent(x) == Str(toString(x) \o <<"%">>)
Pixels(x) == Str(toString(x) \o <<"p", "x">>)
Plain(x) == Str(toString(x))

DimValues ==
    {Num(x.n, x.d) : x \in DimNumbers}
    \cup {Plain(x) : x \in DimNumbers}
    \cup {Percent(x) : x \in DimNumbers}
    \cup {Pixels(x) : x \in DimNumbers}
    \cup {Pct(10, 1), Px(20, 1), Str(<<" ", "5", "0", "%", " ">>), Str(<<"p", "x">>), Str(<<>>)}

InitDim ==
    /\ rawConfig = EmptyRaw
    /\ phase = "idle"
    /\ options = None
    /\ parsedConfig = None
    /\ loadedImages = << >>
    /\ dimensions = None
    /\ InitController
    /\ containerRect = Container
    /\ InitNoViewer
    /\ dimInput \in [value : DimValues, base : 1..MaxBase]
    /\ dimOutput = None
    /\ frameInput = [side |-> "front", natural |-> [width |-> 1, height |-> 1],
                     card |-> [width |-> 1, height |-> 1]]
    /\ frameOutput = None

\* One call _parseDimension(value, baseSize)
DoParseDimension ==
    /\ dimOutput = None
    /\ dimOutput' = Some(parseDimension(dimInput.value, dimInput.base))
    /\ UNCHANGED <<rawConfig, phase, dimInput, frameInput, frameOutput, dataVars, ctlVars>>

NextDim == Step(DoParseDimension)

SpecDim == InitDim /\ [][NextDim]_vars

----------------------------------------------------------------------------
(* _applyLayout on its own: the container and the natural sizes are drawn  *)
(* from bounded sets.                                                      *)

MaxRect == 4
MaxCard == 3

Sizes(max) == [width : 1..max, height : 1..max]

\* The README theme with explicit sizes on both sides
RawSized(front, back) ==
    [RawFramed EXCEPT
        !.front = Some([The(RawFramed.front) EXCEPT !.width = Some(front.width),
                                                    !.height = Some(front.height)]),
        !.back = Some([The(RawFramed.back) EXCEPT !.width = Some(back.width),
                                                  !.height = Some(back.height)])]

InitLayout ==
    /\ rawConfig = EmptyRaw
    /\ phase = "idle"
    /\ options = Some(OptionsStd)
    /\ \E front \in Sizes(MaxCard), back \in Sizes(MaxCard) :
          LET cfg == parse(RawSized(front, back), OptionsStd.themePath)
          IN  /\ parsedConfig = Some(cfg)
              /\ dimensions = Some(getDimensions(cfg, << >>))
              /\ contentAreas = createdAreas(1, cfg)
              /\ frontFrame = frameChildren(createdElements(1, cfg), TRUE)
              /\ backFrame = frameChildren(createdElements(1, cfg), FALSE)
    /\ loadedImages = << >>
    /\ containerRect \in Sizes(MaxRect)
    /\ isFlipped = FALSE
    /\ isAnimating = FALSE
    /\ isInitialized = FALSE
    /\ flippedClass = FALSE
    /\ hiddenClass = TRUE
    /\ rootAttached = TRUE
    /\ flipTimers = 0
    /\ resizeObserver = None
    /\ observers = {}
    /\ calls = << >>
    /\ nCalls = 1
    /\ settled = NoSettled
    /\ tableCall = 1
    /\ flipBase = FALSE
    /\ flipClean = FALSE
    /\ flipDropped = FALSE
    /\ justHid = "no"
    /\ layout = None
    /\ transform = Neutral
    /\ lastMouse = None
    /\ rafPending = FALSE
    /\ rafQueued = 0
    /\ resizeTimers = 0
    /\ resizeTimeout = FALSE
    /\ relayouts = 0
    /\ isTouching = FALSE
    /\ InitNoDimension
    /\ InitNoViewer

\* One call of _applyLayout()
DoApplyLayout ==
    /\ layout = None
    /\ layout' = Some(layoutPass(The(parsedConfig), The(dimensions), loadedImages,
                                 contentAreas, containerRect))
    /\ UNCHANGED <<parseVars, resizeVars, dataVars, containerRect, isInitialized, hiddenClass, rootAttached,
                   flipVars, domVars, observerVars, callVars, flipHistory, justHid, tiltVars>>

NextLayout == Step(DoApplyLayout)

SpecLayout == InitLayout /\ [][NextLayout]_vars

----------------------------------------------------------------------------
(* _applyFrameLayout on its own: the side, its natural size and the card's *)
(* pixel size are drawn from bounded sets; the theme is the README's.      *)

InitFrame ==
    /\ rawConfig = EmptyRaw
    /\ phase = "idle"
    /\ options = None
    /\ parsedConfig = None
    /\ loadedImages = << >>
    /\ dimensions = None
    /\ InitController
    /\ containerRect = Container
    /\ InitNoViewer
    /\ dimInput = [value |-> Num(0, 1), base |-> 1]
    /\ dimOutput = None
    /\ frameInput \in [side : {"front", "back"}, natural : Sizes(MaxCard), card : Sizes(MaxRect)]
    /\ frameOutput = None

\* One call _applyFrameLayout(side, frameEl, viewportW, viewportH)
DoApplyFrameLayout ==
    /\ frameOutput = None
    /\ frameOutput' =
          Some(applyFrameLayout(parse(RawFramed, OptionsStd.themePath),
                                [side \in {"front", "back"} |-> frameInput.natural],
                                << >>, frameInput.side,
                                Integer(frameInput.card.width), Integer(frameInput.card.height)))
    /\ UNCHANGED <<rawConfig, phase, dimInput, dimOutput, frameInput, dataVars, ctlVars>>

NextFrame == Step(DoApplyFrameLayout)

SpecFrame == InitFrame /\ [][NextFrame]_vars


----------------------------------------------------------------------------
(* Claims on ConfigParser (specification SpecParse).                       *)

RawSideOf(side) == The(Nullish(side, Some(EmptySide)))
NoAreaList(raw) == raw.contentArea = None \/ raw.contentArea = Some(<<>>)

FullDefaultAreas ==
    << [ area |-> 0, side |-> "front", x |-> Some(Num(0, 1)), y |-> Some(Num(0, 1)),
         width |-> Some(Num(1, 1)), height |-> Some(Num(1, 1)),
         position |-> Some("center"), fit |-> Some("contain"), style |-> {} ],
       [ area |-> 1, side |-> "back", x |-> Some(Num(1, 10)), y |-> Some(Num(1, 10)),
         width |-> Some(Num(8, 10)), height |-> Some(Num(8, 10)),
         position |-> Some("center"), fit |-> Some("contain"), style |-> {} ] >>

\* C8: parse of a descriptor whose contentArea is missing or empty yields
\* exactly two areas, area 0 on front with x=0, y=0, width=1, height=1 and
\* area 1 on back with x=0.1, y=0.1, width=0.8, height=0.8, both with
\* fit=contain and position=center; and parse({}) gives both sides the
\* default background and no image.
C8_DefaultAreasComplete ==
    (phase # "raw" /\ NoAreaList(rawConfig)) =>
        /\ The(parsedConfig).contentArea = FullDefaultAreas
        /\ (rawConfig.front = None /\ rawConfig.back = None) =>
              /\ The(parsedConfig).front.background = DEFAULT_BACKGROUND
              /\ The(parsedConfig).back.background = DEFAULT_BACKGROUND
              /\ The(parsedConfig).front.image = None
              /\ The(parsedConfig).back.image = None

\* C9: after parse, the back width is the raw back width when one was given
\* and the front width otherwise, the same for the height independently, and
\* the front width and height are those of the raw front whatever the raw
\* back is.
C9_BackInheritsFront ==
    phase = "parsed" =>
        LET c == The(parsedConfig)
            rf == RawSideOf(rawConfig.front)
            rb == RawSideOf(rawConfig.back)
        IN  /\ c.back.width = (IF rb.width # None THEN rb.width ELSE c.front.width)
            /\ c.back.height = (IF rb.height # None THEN rb.height ELSE c.front.height)
            /\ c.front.width = rf.width
            /\ c.front.height = rf.height
            /\ \A b \in RawSides :
                  LET other == parse([rawConfig EXCEPT !.back = Some(b)], The(options).themePath)
                  IN  other.front.width = c.front.width /\ other.front.height = c.front.height

\* C9 witness: a back with a height of its own and no width, under a front
\* with another height, has inherited the width and kept its height.
C9_Witness ==
    /\ phase = "parsed"
    /\ rawConfig.back # None /\ rawConfig.front # None
    /\ The(rawConfig.back).width = None
    /\ The(rawConfig.back).height = Some(0)
    /\ The(parsedConfig).back.width = Some(MaxSide)
    /\ The(parsedConfig).front.height = Some(1)
    /\ The(parsedConfig).back.height = Some(0)

EntryOf(key) == IF key \in DOMAIN loadedImages THEN Some(loadedImages[key]) ELSE None
WidthOf(entry) == IF entry = None THEN None ELSE Some(The(entry).width)
HeightOf(entry) == IF entry = None THEN None ELSE Some(The(entry).height)

\* The loaded image of the first image-type item of the contents list.
FirstImageContent ==
    LET contents == The(Nullish(The(options).contents, Some(<<>>)))
        images == {i \in 1..Len(contents) : contents[i].type = "image"}
    IN  IF images = {} THEN None
        ELSE EntryOf(contentKey((CHOOSE i \in images : \A j \in images : i <= j) - 1))

FrontChain(content) ==
    LET c == The(parsedConfig)
        frame == EntryOf("frontFrame")
    IN  [ width |-> The(Nullish(c.front.width, Nullish(WidthOf(frame),
                        Nullish(WidthOf(content), Some(800))))),
          height |-> The(Nullish(c.front.height, Nullish(HeightOf(frame),
                        Nullish(HeightOf(content), Some(600))))) ]

\* C10 as stated: each front axis is the first available of the explicit
\* config value, the loaded front frame image, the first image-type content
\* item whatever its index, and the default 800 / 600.
C10_FirstImageAnyIndex ==
    phase = "dims" => The(dimensions).front = FrontChain(FirstImageContent)

\* C10 as amended: each front axis is the first available of the explicit
\* config value, the loaded front frame image, the loaded image of the
\* content item at index 0 (key content_0), and the default 800 / 600.
C10_FrontChainIndex0 ==
    phase = "dims" => The(dimensions).front = FrontChain(EntryOf("content_0"))

\* C10 witness: the width comes from the config and the height from the
\* content image at index 0, no frame image being loaded.
C10_Witness ==
    /\ phase = "dims"
    /\ The(parsedConfig).front.width = Some(MaxSide)
    /\ The(parsedConfig).front.height = None
    /\ "frontFrame" \notin DOMAIN loadedImages
    /\ "content_0" \in DOMAIN loadedImages
    /\ The(dimensions).front = [width |-> MaxSide, height |-> 480]

\* The faces of a getDimensions result.
Faces == {"front", "back", "realpic"}

\* C11: with no explicit side size in the normalized config and an empty
\* loaded-asset table, getDimensions returns 800 x 600 for front, back and
\* card; and whatever the input, every axis of every face is a number.
C11_DefaultsAndNumbers ==
    phase = "dims" =>
        LET c == The(parsedConfig)
            d == The(dimensions)
            unset == /\ c.front.width = None /\ c.front.height = None
                     /\ c.back.width = None /\ c.back.height = None
        IN  /\ (unset /\ loadedImages = << >>) =>
                  \A f \in Faces : d[f] = [width |-> 800, height |-> 600]
            /\ \A f \in Faces : d[f].width \in Nat /\ d[f].height \in Nat

\* C11 witness: a config without side sizes whose frame images all failed
\* to load has been resolved to 800 x 600.
C11_Witness ==
    /\ phase = "dims"
    /\ The(parsedConfig).front.image # None
    /\ The(parsedConfig).front.width = None /\ The(parsedConfig).front.height = None
    /\ The(parsedConfig).back.width = None /\ The(parsedConfig).back.height = None
    /\ loadedImages = << >>
    /\ The(dimensions).back = [width |-> 800, height |-> 600]

\* C12: in every getDimensions result the card size is the front size, each
\* back axis is the back config value when given and the resolved front
\* value otherwise, and the call changes neither the config nor the table.
C12_CardIsFrontBackInherits ==
    [][DoGetDimensions =>
        LET c == The(parsedConfig)
            d == The(dimensions')
        IN  /\ d.realpic = d.front
            /\ d.back.width = IF c.back.width # None THEN The(c.back.width) ELSE d.front.width
            /\ d.back.height = IF c.back.height # None THEN The(c.back.height) ELSE d.front.height
            /\ parsedConfig' = parsedConfig
            /\ loadedImages' = loadedImages]_vars

\* C12 witness: the back width is given as 0 and kept, the back height is
\* inherited from a front height taken from the loaded frame image.
C12_Witness ==
    /\ phase = "dims"
    /\ The(parsedConfig).back.width = Some(0)
    /\ The(parsedConfig).back.height = None
    /\ "frontFrame" \in DOMAIN loadedImages
    /\ The(dimensions).front.height = loadedImages["frontFrame"].height
    /\ The(dimensions).back = [width |-> 0, height |-> The(dimensions).front.height]
    /\ The(dimensions).realpic = The(dimensions).front

----------------------------------------------------------------------------
(* Claims on _parseDimension (specification SpecDim).                      *)

\* _parseDimension has returned for the string of form(x)
Called(form(_), x) == dimOutput # None /\ dimInput.value = form(x)

\* C13: for a bare integer v and a positive base b, _parseDimension(v, b) is
\* v*b when v <= 1 and v when v > 1; so _parseDimension(1, b) = b and
\* _parseDimension(2, b) = 2.
C13_BareIntegerRule ==
    (dimOutput # None /\ dimInput.value.kind = "num" /\ dimInput.value.d = 1) =>
        LET v == dimInput.value.n
            b == dimInput.base
            r == The(dimOutput)
        IN  /\ v <= 1 => r = Integer(v * b)
            /\ v > 1 => r = Integer(v)
            /\ v = 1 => r = Integer(b)
            /\ v = 2 => r = Integer(2)

\* C13 witness: _parseDimension(1, b) returned b for a base b > 1.
C13_Witness ==
    /\ dimInput = [value |-> Num(1, 1), base |-> MaxBase]
    /\ MaxBase > 1
    /\ dimOutput = Some(Integer(MaxBase))

\* C14: for a number n and a base b, _parseDimension of "n%" is n*b/100, of
\* "npx" is n whether or not n <= 1, and of the numeric string "n" is what
\* _parseDimension returns for the bare number n.
C14_StringForms ==
    \A x \in DimNumbers :
        LET b == dimInput.base
        IN  /\ Called(Percent, x) => The(dimOutput) = Rat(x.n * b, x.d * 100)
            /\ Called(Pixels, x) => The(dimOutput) = x
            /\ Called(Plain, x) => The(dimOutput) = parseDimension(Num(x.n, x.d), b)

\* C14 witness: "0.5px" gave 0.5 with a base larger than 1.
C14_Witness ==
    /\ dimInput = [value |-> Str(<<"0", ".", "5", "p", "x">>), base |-> MaxBase]
    /\ MaxBase > 1
    /\ dimOutput = Some(Rat(1, 2))

----------------------------------------------------------------------------
(* Claims on _applyLayout (specification SpecLayout).                      *)

FaceScale(card, natural) ==
    Min(Div(card.width, Integer(natural.width)), Div(card.height, Integer(natural.height)))

\* C25: the left and width set on a content area of side s are
\* _parseDimension of its x and width against the natural width of face s,
\* times the scale of face s in the card of this pass; top and height
\* likewise against the natural height of face s; nothing of the other face
\* or of the card's natural size enters.
C25_AreaUsesOwnFace ==
    layout # None =>
        LET pass == The(layout)
            styles == stylesOf(pass)
        IN  \A a \in DOMAIN pass.areas :
                LET info == pass.areas[a]
                    natural == pass.dims[info.side]
                    scale == FaceScale(styles.card, natural)
                    px(value, base) == Mul(parseDimension(The(value), base), scale)
                IN  /\ styles[info.side].scale = scale
                    /\ styles.areas[a].left = px(info.config.x, natural.width)
                    /\ styles.areas[a].width = px(info.config.width, natural.width)
                    /\ styles.areas[a].top = px(info.config.y, natural.height)
                    /\ styles.areas[a].height = px(info.config.height, natural.height)

\* C25 witness: a wide front and a tall back of the largest size in a square
\* container: the faces have different scales, and the back area, 10% from
\* the left and 50% wide, is placed by the back's width and scale.
C25_Witness ==
    /\ layout # None
    /\ MaxCard > 1
    /\ containerRect = [width |-> MaxRect, height |-> MaxRect]
    /\ The(dimensions).front = [width |-> MaxCard, height |-> 1]
    /\ The(dimensions).back = [width |-> 1, height |-> MaxCard]
    /\ stylesOf(The(layout)).front.scale # stylesOf(The(layout)).back.scale
    /\ \E a \in DOMAIN contentAreas :
          /\ contentAreas[a].side = "back"
          /\ stylesOf(The(layout)).areas[a].left =
                Mul(Rat(1, 10), stylesOf(The(layout)).back.scale)
          /\ stylesOf(The(layout)).areas[a].width =
                Mul(Rat(1, 2), stylesOf(The(layout)).back.scale)

----------------------------------------------------------------------------
(* Claims on the RealPic controller (specifications Spec and SpecLoad).    *)

\* Every field and DOM part of the controller, without the history variables.
controllerState ==
    <<dataVars, isInitialized, hiddenClass, rootAttached, flipVars, domVars, observerVars,
      callVars, layoutVars, tiltVars>>

\* C1: a flip() made while the 600 ms timer of an accepted flip() is pending
\* changes no state; as long as no reset(), hide() or setOptions() fell in
\* the window, isFlipped is one toggle away from its value before the
\* accepted call and the flipped marker agrees with it; and the expiry of
\* the timer replays nothing: it leaves isFlipped and the marker alone and
\* no timer pending.
C1_FlipOncePerWindow ==
    [][ /\ (isAnimating /\ Flip) => UNCHANGED controllerState
        /\ (flipTimers' > 0 /\ flipClean') =>
              (isFlipped' = ~flipBase' /\ flippedClass' = isFlipped')
        /\ FlipTimer =>
              (isFlipped' = isFlipped /\ flippedClass' = flippedClass /\ flipTimers' = 0
                 /\ ~isAnimating') ]_vars

\* C1 witness: inside the window of an accepted flip(), after a further
\* flip() was dropped, with no reset(), hide() or setOptions() in between.
C1_Witness ==
    /\ flipTimers = 1 /\ isAnimating
    /\ flipClean /\ flipDropped
    /\ isFlipped = ~flipBase

\* C2: show() called right after hide() leaves isFlipped false, the flipped
\* marker absent and the component visible, whatever the state hide() was
\* called in.
C2_HideThenShowFront ==
    [][ (justHid \in {"hid", "hidFlipped"} /\ Show) =>
            (~isFlipped' /\ ~flippedClass' /\ isVisible') ]_vars

\* C2 witness: hide() was called on the back face while the flip animation
\* was running, show() followed, and the front face is visible.
C2_Witness ==
    /\ justHid = "restored"
    /\ isAnimating
    /\ ~isFlipped /\ ~flippedClass /\ isVisible

\* An update call that was awaited has settled, no later call was made, and
\* destroy() was not called.
AwaitedUpdate ==
    /\ settled.kind = "update"
    /\ ~settled.overlapped
    /\ settled.id = nCalls
    /\ Active(calls) = {}
    /\ rootAttached

frameOf(side) == IF side = "front" THEN frontFrame ELSE backFrame
elementsWithId(frame, id) == {k \in 1..Len(frame) : frame[k].area = id}
madeBy(frame, call) == \A k \in 1..Len(frame) : frame[k].el[1] = call

\* C3 as stated: after an awaited setOptions() on an initialized controller,
\* every area id of the normalized config has exactly one element in
\* contentAreas and in its face's frame, and no element of an earlier call
\* remains in either frame.
C3_EveryAreaIdMounted ==
    AwaitedUpdate =>
        LET ca == The(parsedConfig).contentArea
        IN  /\ \A i \in 1..Len(ca) :
                  /\ ca[i].area \in DOMAIN contentAreas
                  /\ Cardinality(elementsWithId(frameOf(ca[i].side), ca[i].area)) = 1
            /\ madeBy(frontFrame, settled.id)
            /\ madeBy(backFrame, settled.id)

\* C3 as amended: after an awaited setOptions() on an initialized controller
\* that was not destroyed, if the call got as far as _createContentAreas
\* (its options had a themePath), every entry of the normalized
\* contentArea list has exactly one element, made by this call, in its
\* face's frame and the frames hold nothing else, and contentAreas maps each
\* distinct area id to the element of the last entry with that id;
\* otherwise both frames and contentAreas are empty.  In both cases no
\* element of an earlier call remains in either frame.
C3_UpdateRemounts ==
    AwaitedUpdate =>
        /\ IF settled.created
           THEN LET ca == The(parsedConfig).contentArea
                    lastOf(a) == CHOOSE i \in 1..Len(ca) :
                                    ca[i].area = a /\ \A j \in 1..Len(ca) : ca[j].area = a => j <= i
                IN  /\ Len(frontFrame) + Len(backFrame) = Len(ca)
                    /\ \A i \in 1..Len(ca) :
                          Cardinality({k \in 1..Len(frameOf(ca[i].side)) :
                                          /\ frameOf(ca[i].side)[k].el = <<settled.id, i>>
                                          /\ frameOf(ca[i].side)[k].area = ca[i].area}) = 1
                    /\ DOMAIN contentAreas = {ca[i].area : i \in 1..Len(ca)}
                    /\ \A a \in DOMAIN contentAreas :
                          contentAreas[a].el = <<settled.id, lastOf(a)>>
           ELSE frontFrame = << >> /\ backFrame = << >> /\ contentAreas = << >>
        /\ madeBy(frontFrame, settled.id)
        /\ madeBy(backFrame, settled.id)

\* C3 witness: call 1 initialised the controller, calls 2 and 3 were updates
\* and call 3 repeated the options of call 2; its two areas are mounted.
C3_Witness ==
    /\ AwaitedUpdate
    /\ nCalls = 3
    /\ resizeObserver = Some(1)
    /\ settled.repeat /\ settled.created /\ settled.outcome = "done"
    /\ Len(frontFrame) + Len(backFrame) = 2

\* C4: once destroy() has run, no flip(), reset(), show(), hide() or
\* setOptions() call and no completion of a setOptions() in flight changes
\* isFlipped, isAnimating, the visibility, the mounted content areas or the
\* resize observer (the expiry of a flip timer set before is left aside).
C4_DestroyIsTerminal ==
    [][ (~rootAttached /\ ~FlipTimer) =>
            UNCHANGED <<isFlipped, flippedClass, isAnimating, hiddenClass, contentAreas,
                        frontFrame, backFrame, resizeObserver, observers>> ]_vars

\* C5: no setOptions() call ends by rejecting its promise.
C5_NoErrorToCaller == settled.outcome # "rejected"

\* C7: once the call whose _loadImages created the current table has computed
\* its layout, every entry of loadedImages comes from a load that call issued.
C7_TableOfCurrentCall ==
    (tableCall # 0 /\ (tableCall \in DOMAIN calls => calls[tableCall].created)) =>
        \A k \in DOMAIN loadedImages : loadedImages[k].call = tableCall

----------------------------------------------------------------------------
(* Claims on RealPicViewer (specifications SpecViewer and SpecViewerOld).  *)

\* C6: a show() call made while an earlier show() call has not returned
\* changes no state of the viewer or of its controller, and at most one
\* setOptions() call is in flight at any time.
C6_ShowsSerialized ==
    [][ /\ (DOMAIN shows # {}
              /\ \E image \in ViewerImages : ViewerShow(image) \/ ViewerShowOld(image)) =>
                 UNCHANGED <<controllerState, viewer, shows, nShows, hideTimers>>
        /\ Cardinality(Active(calls')) <= 1 ]_vars

\* parsedConfig is the empty descriptor normalized against the theme path of
\* the current options.
FallbackConfig(cfg, opts) ==
    /\ opts # None
    /\ ~FalsyPath(The(opts).themePath)
    /\ cfg = Some(parse(EmptyRaw, The(opts).themePath))

\* The default front and back areas each hold the content of their item.
DefaultAreasMounted(front, back) ==
    /\ Len(front) = 1 /\ front[1].area = 0 /\ front[1].content # None
    /\ Len(back) = 1 /\ back[1].area = 1 /\ back[1].content # None

\* C16: when the fetch of the theme config fails (network error, non-success
\* response, unparsable descriptor), the call goes on with the empty
\* descriptor normalized against its theme base path, and it ends having
\* laid out the card, mounted the contents and shown the root element.
C16_FetchFailureFallsBack ==
    [][/\ \A c \in DOMAIN calls :
             FetchDone(c, None) =>
                 /\ parsedConfig' = Some(parse(EmptyRaw, calls[c].themeBase))
                 /\ c \in DOMAIN calls'
       /\ (settled' # settled /\ nCalls' = nCalls /\ FallbackConfig(parsedConfig', options')) =>
                 /\ settled'.outcome = "done"
                 /\ ~hiddenClass'
                 /\ layout' # None
                 /\ The(layout').front = The(parsedConfig').front
                 /\ The(layout').back = The(parsedConfig').back
                 /\ The(layout').dims = The(dimensions')
                 /\ DefaultAreasMounted(frontFrame', backFrame')]_vars

\* C16 witness: a call whose fetch failed has ended, the default areas
\* are laid out and hold the image and the text, and the root is shown.
C16_Witness ==
    /\ Active(calls) = {}
    /\ settled.id = nCalls
    /\ settled.outcome = "done"
    /\ FallbackConfig(parsedConfig, options)
    /\ ~hiddenClass
    /\ layout # None /\ The(layout).areas = contentAreas
    /\ DefaultAreasMounted(frontFrame, backFrame)

\* Call c has image loads that have not settled.
Loading(c) == c \in DOMAIN calls /\ calls[c].pc = "images"

\* Call c has resolved the dimensions and laid out the card, or has ended.
LaidOut(c) == c <= nCalls /\ (c \in DOMAIN calls => calls[c].created)

\* C17: within one setOptions() call, dimension resolution and layout start
\* only after every image load issued for the call has settled; a load that
\* fails leaves no entry under its key and does not stop the call from
\* reaching layout; if every issued load settles, the call reaches layout.
C17_LayoutAfterAllLoads ==
    /\ [][/\ (dimensions' # dimensions \/ layout' # layout) =>
                \E c \in DOMAIN calls :
                    /\ ~calls[c].created /\ (LaidOut(c))'
                    /\ Cardinality(calls[c].pending) <= 1
          /\ \A c \in DOMAIN calls : \A t \in calls[c].pending :
                ImageSettled(c, t, FALSE) =>
                    /\ loadedImages' = loadedImages
                    /\ ~calls[c].overlapped => t.key \notin DOMAIN loadedImages'
                    /\ calls[c].pending = {t} => (LaidOut(c))' /\ layout' # layout]_vars
    /\ \A c \in 1..MaxAwaited : Loading(c) ~> LaidOut(c)

\* C17 witness: a call whose frame image loads both failed has laid out the
\* card with the content image as the only entry of the table.
C17_Witness ==
    /\ settled.id = nCalls /\ settled.created
    /\ parsedConfig # None
    /\ The(parsedConfig).front.image # None /\ The(parsedConfig).back.image # None
    /\ DOMAIN loadedImages = {"content_0"}
    /\ layout # None /\ The(layout).loaded = {}
    /\ The(layout).dims = The(dimensions)
    /\ The(dimensions).front = [width |-> 640, height |-> 480]

----------------------------------------------------------------------------
(* Claims on the perspective tilt (specification SpecTilt).                *)

\* C18: after a mouseleave or touchend on a frame with no flip animation
\* running, the viewport's transform is neutral, whatever it was before.
C18_LeaveResetsTilt ==
    [][(~isAnimating /\ (MouseLeave \/ TouchEnd)) => transform' = Neutral]_vars

\* C19: from an accepted flip() until its timer expires the viewport's
\* transform is neutral: flip() sets it, and no mouse move, touch start,
\* touch move or already scheduled frame callback in the window tilts it.
C19_NoTiltWhileFlipping ==
    /\ flipTimers > 0 => transform = Neutral
    /\ isAnimating <=> flipTimers > 0

\* C19 witness: a flip is under way with a frame callback still scheduled
\* for a touch position off the centre, and the transform is neutral.
C19_Witness ==
    /\ flipTimers > 0
    /\ rafQueued > 0 /\ isTouching
    /\ lastMouse = Some([x |-> 0, y |-> MaxPointer])
    /\ tiltFor(The(lastMouse), isTouching) # Neutral
    /\ transform = Neutral

----------------------------------------------------------------------------
(* Claims on _mountContents (specification Spec).                          *)

\* The last setOptions() call has ended, it created the areas, nothing is
\* still mounting, and destroy() has not run.
MountFinished ==
    /\ calls = << >>
    /\ nCalls > 0 /\ settled.id = nCalls /\ settled.created
    /\ rootAttached

\* The area id item j of the contents list goes to (j counts from 1).
AreaIdOf(j) == targetArea(contentsOf(The(options))[j], j - 1)

\* Item j has an area, and _mountTextContent does not throw on it.
Mountable(j) ==
    /\ AreaIdOf(j) \in DOMAIN contentAreas
    /\ LET position == contentAreas[AreaIdOf(j)].config.position
       IN  contentsOf(The(options))[j].type = "text" =>
               (Falsy(position) \/ The(position) \in ValidPositions)

\* The items mounted into element el
ItemsInto(el) ==
    {j \in 1..Len(contentsOf(The(options))) : Mountable(j) /\ contentAreas[AreaIdOf(j)].el = el}

\* C20: _mountContents mounts each item into the area whose id is the
\* item's area field, or its list index when the field is absent; an item
\* whose id matches no area changes no area, does not fail the operation
\* and does not keep the other items of the list from being mounted.
C20_UnmatchedItemSkipped ==
    MountFinished =>
        LET contents == contentsOf(The(options))
        IN  /\ \A k \in 1..Len(frontFrame \o backFrame) :
                  LET e == (frontFrame \o backFrame)[k]
                  IN  IF ItemsInto(e.el) = {} THEN e.content = None
                      ELSE /\ e.content # None
                           /\ The(e.content).item + 1 \in ItemsInto(e.el)
                           /\ The(e.content).type = contents[The(e.content).item + 1].type
            /\ (\A j \in 1..Len(contents) : AreaIdOf(j) \in DOMAIN contentAreas => Mountable(j))
                  => settled.outcome = "done"

\* C20 witness: the image item names area 0, which the theme does not
\* have; the call ended well and the text item is mounted in area 1.
C20_Witness ==
    /\ MountFinished
    /\ settled.outcome = "done"
    /\ DOMAIN contentAreas = {1}
    /\ AreaIdOf(1) = 0 /\ AreaIdOf(2) = 1
    /\ \E k \in 1..Len(backFrame) :
          /\ backFrame[k].el = contentAreas[1].el
          /\ backFrame[k].content # None
          /\ The(backFrame[k].content).type = "text"
    /\ \A k \in 1..Len(backFrame) :
          backFrame[k].el # contentAreas[1].el => backFrame[k].content = None

----------------------------------------------------------------------------
(* Claims on the frame callback of updatePointer (specification SpecMoves). *)

\* C21: over any sequence of mouse moves and touch moves at most one frame
\* callback is outstanding, _rafPending is set exactly while it is, every
\* move records its position, and the callback, when it runs, applies the
\* tilt of the position recorded last.
C21_OneFrameCallback ==
    /\ [](rafQueued <= 1 /\ (rafPending <=> rafQueued = 1))
    /\ [][\A p \in Pointers :
             (MouseMove(p) \/ (isTouching /\ TouchMove(p))) => lastMouse' = Some(p)]_vars
    /\ [][AnimationFrame =>
             /\ lastMouse # None
             /\ transform' = tiltFor(The(lastMouse), isTouching)]_vars

\* C21 witness: the callback has run after mouse moves (no touch began) and
\* the viewport is tilted for the corner the pointer reached last.
C21_Witness ==
    /\ rafQueued = 0 /\ ~rafPending /\ ~isTouching
    /\ lastMouse = Some([x |-> MaxPointer, y |-> 0])
    /\ transform = tiltFor(The(lastMouse), FALSE)
    /\ transform # Neutral

----------------------------------------------------------------------------
(* Claims on the resize debounce (specification SpecResize).               *)

\* C22: at most one 100 ms timer of the observer callback is pending; a
\* notification leaves exactly one pending, the new one, and runs no layout;
\* a relayout from a resize is made only by a timer that expires, it uses
\* the root's rect of that moment, and it is the one relayout since the
\* last notification of the burst.
C22_ResizeDebounced ==
    /\ [](resizeTimers <= 1 /\ (resizeTimeout <=> resizeTimers = 1) /\ relayouts <= 1)
    /\ [][\A rect \in Rects : ResizeNotify(rect) =>
             resizeTimers' = 1 /\ relayouts' = 0 /\ layout' = layout]_vars
    /\ [][relayouts' # relayouts => ResizeTimer \/ (\E rect \in Rects : ResizeNotify(rect))]_vars
    /\ [][ResizeTimer =>
             /\ isInitialized
             /\ resizeTimers' = 0 /\ relayouts' = 1
             /\ layout' # None /\ The(layout').rect = containerRect]_vars

\* C22 witness: after a burst that ended on the narrow rect the timer has
\* run once and the card is laid out for that rect, no timer being left.
C22_Witness ==
    /\ rootAttached /\ isInitialized
    /\ resizeTimers = 0 /\ relayouts = 1
    /\ containerRect = Narrow
    /\ layout # None /\ The(layout).rect = Narrow

----------------------------------------------------------------------------
(* Claims on reset() (specification SpecReset).                            *)

\* C23: reset(), whatever the state it is called in, leaves isFlipped false
\* and the flipped marker off in the same step, and changes none of
\* isAnimating, the pending flip timer, the hidden marker, isInitialized,
\* the viewport's transform and the content areas.
C23_ResetOnlyUnflips ==
    [][Reset =>
         /\ isFlipped' = FALSE /\ flippedClass' = FALSE
         /\ UNCHANGED <<isAnimating, flipTimers, hiddenClass, isInitialized,
                        transform, contentAreas, layout>>]_vars

\* C23 witness: the card was initialised, hidden and flipped, and reset()
\* ran inside the window: the timer is still pending, the card is still
\* hidden and initialised with its areas, and it shows the front.
C23_Witness ==
    /\ isAnimating /\ flipTimers = 1 /\ ~flipClean
    /\ ~isFlipped /\ ~flippedClass /\ flipBase = FALSE
    /\ justHid = "no"
    /\ hiddenClass /\ isInitialized
    /\ contentAreas # << >>

----------------------------------------------------------------------------
(* Claims on _parseSideConfig (specification SpecParse).                   *)

\* A width or height as the claim wants it: unset, or a positive number.
PositiveOrUnset(size) == size = None \/ The(size) > 0

\* C24: both sides of the configuration parse() returns have a background
\* that is not the empty string, and a width and a height that each are a
\* positive number or unset.
C24_SideNormalised ==
    phase # "raw" =>
        \A face \in {"front", "back"} :
            /\ The(parsedConfig)[face].background # ""
            /\ PositiveOrUnset(The(parsedConfig)[face].width)
            /\ PositiveOrUnset(The(parsedConfig)[face].height)

----------------------------------------------------------------------------
(* Claims on RealPicViewer.close() (specification SpecClose).              *)

\* C27: close() on a viewer that is not open changes nothing and sets no
\* timer; close() on an open viewer clears isOpen in the same step, sets one
\* timer for realpic.hide() and, with an onClose hook, one for the hook, and
\* hides nothing yet; the hide() timer, when it runs, hides the card of a
\* viewer not destroyed; no onClose timer exists without the hook.
C27_CloseSchedulesOnce ==
    /\ [](~viewer.onClose => closeTimers = 0)
    /\ [][ViewerClose =>
             IF ~viewer.isOpen
             THEN UNCHANGED vars
             ELSE /\ ~viewer'.isOpen
                  /\ hideTimers' = hideTimers + 1
                  /\ closeTimers' = closeTimers + (IF viewer.onClose THEN 1 ELSE 0)
                  /\ UNCHANGED <<dataVars, ctlVars>>]_vars
    /\ [][ViewerHideTimer =>
             /\ hideTimers' = hideTimers - 1
             /\ viewer.realpic => hiddenClass']_vars
    /\ [][closeTimers' < closeTimers => closeTimers' = closeTimers - 1 /\ hideTimers' = hideTimers]_vars

\* C27 witness: a viewer with an onClose hook was closed while its card was
\* shown: it is not open, one hide() and one onClose are pending, and the
\* card is not hidden yet.
C27_Witness ==
    /\ viewer.realpic /\ viewer.onClose /\ ~viewer.isOpen
    /\ hideTimers = 1 /\ closeTimers = 1
    /\ isInitialized /\ ~hiddenClass

----------------------------------------------------------------------------
(* Claims on the flip state (specification Spec).                          *)

\* C28: as long as destroy() has not run, isFlipped is true exactly when
\* the root element carries the class realpic-flipped, whatever flip(),
\* reset(), hide(), show(), setOptions() calls and flip timers came before.
C28_MarkerIsFlipped ==
    rootAttached => (isFlipped <=> flippedClass)

\* C28 witness: after an update by setOptions(), which reset the card, a
\* flip() showed the back again and its timer has expired: the flag and the
\* marker are both set.
C28_Witness ==
    /\ rootAttached
    /\ nCalls > 1 /\ calls = << >> /\ settled.kind = "update"
    /\ isFlipped /\ flippedClass
    /\ ~isAnimating /\ flipTimers = 0

\* C29: isAnimating is set exactly while one flip timer is pending, there
\* are never two, and whenever isAnimating is set it is cleared later, also
\* when reset(), hide(), setOptions() or destroy() run in between.
C29_AnimationEnds ==
    /\ [](flipTimers <= 1 /\ (isAnimating <=> flipTimers = 1))
    /\ (isAnimating ~> ~isAnimating)

\* C29 witness: inside the window of an accepted flip() an update by
\* setOptions() is under way and hide() has run; the timer is pending.
C29_Witness ==
    /\ isAnimating /\ flipTimers = 1
    /\ ~flipClean /\ hiddenClass
    /\ \E c \in Active(calls) : calls[c].kind = "update"

----------------------------------------------------------------------------
(* Claims on RealPicViewer.show() (specification SpecShow).                *)

\* C30: whenever a show() was accepted, so that isLoading is set, isLoading
\* is cleared later, whatever the outcomes of onOpen, of the preload and of
\* setOptions().
C30_LoadingEnds ==
    viewer.isLoading ~> ~viewer.isLoading

----------------------------------------------------------------------------
(* Claims on close() followed by show() (specification SpecClose).         *)

\* The last accepted show() has returned and its setOptions() resolved
\* without an error.
LastShowDone ==
    /\ shows = << >>
    /\ nCalls > 0 /\ settled.id = nCalls /\ settled.outcome = "done"

\* C31: whenever the viewer is open, not loading, and the last accepted
\* show() completed its setOptions() without error, the card is visible (the
\* root does not carry realpic-hidden): a hide() timer left by an earlier
\* close() does not hide what a later show() displays.
C31_OpenMeansVisible ==
    (viewer.realpic /\ viewer.isOpen /\ ~viewer.isLoading /\ LastShowDone) => isVisible

----------------------------------------------------------------------------
(* Claims on the observers left by destroy() (specification SpecLoad).     *)

\* C32: once destroy() has run and no setOptions() call is in flight, no
\* ResizeObserver created by the controller observes the container.
C32_NoObserverLeft ==
    (~rootAttached /\ Active(calls) = {}) => observers = {}

----------------------------------------------------------------------------
(* Claims on the relayout during an update (specification SpecResize).     *)

\* C33: whenever the resize timer runs _applyLayout, this.parsedConfig,
\* this.dimensions and this.loadedImages come from one configuration: no
\* setOptions() call stands between its _loadConfig and its getDimensions,
\* and the dimensions the pass uses are the ones getDimensions gives for
\* the parsedConfig and the table it uses.
C33_LayoutOfOneConfiguration ==
    [][(ResizeTimer /\ isInitialized) =>
          /\ \A c \in Active(calls) : calls[c].pc = "fetch" \/ calls[c].created
          /\ The(layout').dims = getDimensions(The(parsedConfig), loadedImages)]_vars

----------------------------------------------------------------------------
(* Claims on the face shown after setOptions() (specification Spec).       *)

\* C34: in the step where a setOptions() call completes without an error,
\* first initialisation or update, isFlipped is false and the root does not
\* carry the flipped marker, whatever flip() calls came before the first
\* call or while the call was in flight.
C34_FrontAfterSetOptions ==
    [][(settled'.id # settled.id /\ settled'.outcome = "done") =>
          (~isFlipped' /\ ~flippedClass')]_vars

====
